---- MODULE Spec2Model ----
(***************************************************************************)
(* A model of go-swagger's API router (pkg/gin), its parameter validation  *)
(* (pkg/api Parameter.Validate) and its document generation.               *)
(*                                                                         *)
(* Text is modelled as a sequence of one-character strings, so that        *)
(* formatting, parsing, prefix tests and letter-case conversion are        *)
(* computed character by character, as the Go code computes them.          *)
(* Go values of type interface{} are tagged records: [k |-> "nil"],        *)
(* [k |-> "string", s |-> text], [k |-> "int", n |-> number], ...          *)
(***************************************************************************)
EXTENDS Integers, Sequences, FiniteSets, TLC

VARIABLES
    definitions,      \* APIRouter.definitions: the registered definitions, by value
    heap,             \* the APIDefinition objects the route handlers captured by pointer
    routes,           \* the routes handed to the gin engine: method, full path, captured object
    basePath,         \* APIRouter.basePath
    title,            \* APIRouter.title
    version,          \* APIRouter.version
    description,      \* APIRouter.description
    securitySchemes,  \* APIRouter.securitySchemes
    globalSecurity,   \* APIRouter.globalSecurity
    swaggerDoc,       \* APIRouter.swaggerDoc: the cached document, Nil before the first one
    generated,        \* APIRouter.generated
    ret,              \* the last router call: its name, argument and what it returned
    request,          \* the request being served by a route handler, or NoRequest
    response,         \* what the handler answered to it
    vParam,           \* Parameter.Validate: the receiver p
    vValue,           \* Parameter.Validate: the argument value
    vDone,            \* whether Validate has been applied to (vParam, vValue)
    vResult,          \* the error Validate returned (NoErr for nil)
    sValue,           \* schema synthesis: the argument v
    sDone,            \* whether the two synthesis functions have been applied to sValue
    sSafe,            \* what SafeSchemaFromStruct(sValue) returned
    sPlain,           \* what SchemaFromStruct(sValue) returned
    hpc,              \* SwaggerHandler on each concurrent request: where it stands
    hEtag,            \* the ETag header that request has set
    hResp,            \* the response that request has sent, Nil before
    hRaced,           \* whether a GenerateSwagger call ran while that request was served
    gpc,              \* the concurrent GenerateSwagger call: where it stands
    gData,            \* its local data, the bytes json.MarshalIndent returned
    gMade             \* the snapshots the GenerateSwagger calls have produced

routerVars == <<definitions, heap, routes, basePath, title, version, description,
                securitySchemes, globalSecurity, swaggerDoc, generated, ret>>
httpVars == <<request, response>>
valVars == <<vParam, vValue, vDone, vResult>>
schemaVars == <<sValue, sDone, sSafe, sPlain>>
raceVars == <<hpc, hEtag, hResp, hRaced, gpc, gData, gMade>>
vars == <<routerVars, httpVars, valVars, schemaVars, raceVars>>

-----------------------------------------------------------------------------
(* Bounds of the model *)

\* longest value text enumerated for Parameter.Validate
MaxLen == 3
\* longest rule list enumerated for a parameter
MaxRules == 2
\* most definitions registered on a router
MaxDefs == 2
\* most routes registered on a router that serves requests
MaxRoutes == 1
\* longest list of definitions handed to RegisterGroup
MaxGroup == 3
\* most fields of a struct type handed to the schema synthesis
MaxFields == 2
\* SwaggerHandler requests served at the same time
MaxReaders == 2
\* most parameters a definition gets through the builder after Register
MaxParams == 1
\* longest path an operation id is synthesized from
MaxPath == 4

-----------------------------------------------------------------------------
(* Go values and text helpers *)

Nil == [k |-> "nil"]
\* the value of a one-element set: Only({F(x) : x \in {e}}) is F applied to
\* the value of e, computed once (a local variable assigned once)
Only(S) == CHOOSE x \in S : TRUE
StrV(s) == [k |-> "string", s |-> s]
IntV(n) == [k |-> "int", n |-> n]
FloatV(x10) == [k |-> "float64", x10 |-> x10]          \* the float64 x10 / 10
IfaceSlice(elems) == [k |-> "[]interface{}", elems |-> elems]
StringSlice(elems) == [k |-> "[]string", elems |-> elems]

DigitChars == <<"0", "1", "2", "3", "4", "5", "6", "7", "8", "9">>
IsDigit(c) == \E i \in 1..10 : DigitChars[i] = c
DigitVal(c) == (CHOOSE i \in 1..10 : DigitChars[i] = c) - 1

RECURSIVE Pow10(_)
Pow10(n) == IF n = 0 THEN 1 ELSE 10 * Pow10(n - 1)

RECURSIVE FormatNat(_)
FormatNat(n) == IF n < 10 THEN <<DigitChars[n + 1]>>
                ELSE FormatNat(n \div 10) \o <<DigitChars[(n % 10) + 1]>>

\* fmt.Sprintf("%v", v) for the value kinds of the model
Stringify(v) ==
    CASE v.k = "string" -> v.s
      [] v.k = "int"    -> IF v.n < 0 THEN <<"-">> \o FormatNat(0 - v.n) ELSE FormatNat(v.n)
      [] OTHER          -> <<"<", "n", "i", "l", ">">>

\* strings.Contains(s, c) for a one-character c
Contains(s, c) == \E i \in 1..Len(s) : s[i] = c

\* strings.HasPrefix(s, prefix)
HasPrefix(s, prefix) ==
    /\ Len(s) >= Len(prefix)
    /\ \A i \in 1..Len(prefix) : s[i] = prefix[i]

\* len(s) of a Go string: its length in bytes of UTF-8
Utf8Len(c) == IF c = "é" THEN 2 ELSE 1
RECURSIVE ByteLen(_)
ByteLen(s) == IF s = <<>> THEN 0 ELSE Utf8Len(Head(s)) + ByteLen(Tail(s))

RECURSIVE DigitsVal(_)
DigitsVal(s) == IF s = <<>> THEN 0
                ELSE DigitsVal(SubSeq(s, 1, Len(s) - 1)) * 10 + DigitVal(s[Len(s)])

AllDigits(s) == \A i \in 1..Len(s) : IsDigit(s[i])

\* strconv.ParseFloat(s, 64) on decimal text: [sign] digits [. digits] or
\* [sign] . digits. The result is ok (err == nil) with the number m / 10^f.
\* Exponents, hex floats, underscores, inf and nan need letters the value
\* alphabet of the model does not hold.
ParseFloat(s) ==
    LET signed == s # <<>> /\ s[1] \in {"+", "-"}
        body   == IF signed THEN Tail(s) ELSE s
        dots   == {i \in 1..Len(body) : body[i] = "."}
        dot    == IF dots = {} THEN Len(body) + 1 ELSE CHOOSE i \in dots : \A j \in dots : i <= j
        int    == SubSeq(body, 1, dot - 1)
        frac   == SubSeq(body, dot + 1, Len(body))
        ok     == /\ Cardinality(dots) <= 1
                  /\ AllDigits(int) /\ AllDigits(frac)
                  /\ Len(int) + Len(frac) > 0
        mag    == DigitsVal(int \o frac)
    IN  IF ok THEN [ok |-> TRUE, m |-> IF signed /\ s[1] = "-" THEN 0 - mag ELSE mag,
                    f |-> Len(frac)]
        ELSE [ok |-> FALSE, m |-> 0, f |-> 0]

\* numVal < threshold and numVal > threshold for numVal = r.m / 10^r.f and the
\* float64 threshold x10 / 10
NumLess(r, x10) == r.m * 10 < x10 * Pow10(r.f)
NumGreater(r, x10) == r.m * 10 > x10 * Pow10(r.f)

\* fmt.Errorf(format) with no operands: "%%" prints "%", a "%" that ends the
\* format prints "%!(NOVERB)", any other verb c prints "%!c(MISSING)".
\* (flags, widths and argument indexes need characters the message alphabet
\* of the model does not hold.)
RECURSIVE Errorf(_)
Errorf(format) ==
    IF format = <<>> THEN <<>>
    ELSE IF Head(format) # "%" THEN <<Head(format)>> \o Errorf(Tail(format))
    ELSE IF Len(format) = 1 THEN <<"%", "!", "(", "N", "O", "V", "E", "R", "B", ")">>
    ELSE IF format[2] = "%" THEN <<"%">> \o Errorf(Tail(Tail(format)))
    ELSE <<"%", "!", format[2], "(", "M", "I", "S", "S", "I", "N", "G", ")">>
         \o Errorf(Tail(Tail(format)))

NoErr == [err |-> FALSE]
Err(text) == [err |-> TRUE, text |-> text]

\* fmt.Errorf("parameter %s is required", p.Name)
RequiredText(name) ==
    <<"p", "a", "r", "a", "m", "e", "t", "e", "r", " ">> \o name
      \o <<" ", "i", "s", " ", "r", "e", "q", "u", "i", "r", "e", "d">>

-----------------------------------------------------------------------------
(* Parameter.Validate *)

PatWord == "^[a-zA-Z0-9_]+$"
PatBroken == "["
WordChars == {"a", "b", "c", "_", "0", "1", "2", "3", "4", "5", "6", "7", "8", "9"}

\* regexp.MatchString(pattern, s) for the two patterns of the model: the
\* README's word pattern, and a pattern that does not compile
MatchString(pattern, s) ==
    IF pattern = PatBroken THEN [err |-> TRUE, matched |-> FALSE]
    ELSE [err |-> FALSE, matched |-> s # <<>> /\ \A i \in 1..Len(s) : s[i] \in WordChars]

\* url.ParseRequestURI(s) returns no error; the value alphabet holds no ":"
\* (no scheme) and no "%" (no escapes), so a request URI is "*" or starts
\* with "/"
ParseRequestURIOk(s) == s # <<>> /\ (s = <<"*">> \/ s[1] = "/")

\* a min rule whose float threshold also rejects a value that is no number
MinFails_RejectUnparsed(threshold, strValue) ==
    IF threshold.k = "float64"
    THEN LET r == ParseFloat(strValue) IN ~r.ok \/ NumLess(r, threshold.x10)
    ELSE IF threshold.k = "int" THEN ByteLen(strValue) < threshold.n
    ELSE FALSE

\* a min rule whose integer threshold bounds the number when the value is one
MinFails_IntIsNumeric(threshold, strValue) ==
    IF threshold.k = "float64"
    THEN LET r == ParseFloat(strValue) IN r.ok /\ NumLess(r, threshold.x10)
    ELSE IF threshold.k = "int"
    THEN LET r == ParseFloat(strValue) IN
         IF r.ok THEN NumLess(r, threshold.n * 10) ELSE ByteLen(strValue) < threshold.n
    ELSE FALSE

\* case "min": TRUE when the rule returns an error
MinFails(threshold, strValue) ==
    IF threshold.k = "float64"
    THEN LET r == ParseFloat(strValue) IN r.ok /\ NumLess(r, threshold.x10)
    ELSE IF threshold.k = "int" THEN ByteLen(strValue) < threshold.n
    ELSE FALSE

\* case "max"
MaxFails(threshold, strValue) ==
    IF threshold.k = "float64"
    THEN LET r == ParseFloat(strValue) IN r.ok /\ NumGreater(r, threshold.x10)
    ELSE IF threshold.k = "int" THEN ByteLen(strValue) > threshold.n
    ELSE FALSE

\* case "pattern"
PatternFails(pattern, strValue) ==
    IF pattern.k = "string"
    THEN LET r == MatchString(pattern.s, strValue) IN r.err \/ ~r.matched
    ELSE FALSE

\* case "enum"
EnumFails(values, strValue) ==
    IF values.k = "[]interface{}"
    THEN ~\E i \in 1..Len(values.elems) : Stringify(values.elems[i]) = strValue
    ELSE FALSE

\* one case of the switch on rule.Type: TRUE when the rule returns an error
RuleFails(rule, strValue) ==
    CASE rule.Type = "min" -> MinFails(rule.Value, strValue)
      [] rule.Type = "max" -> MaxFails(rule.Value, strValue)
      [] rule.Type = "pattern" -> PatternFails(rule.Value, strValue)
      [] rule.Type = "enum" -> EnumFails(rule.Value, strValue)
      [] rule.Type = "email" -> ~Contains(strValue, "@") \/ ~Contains(strValue, ".")
      [] rule.Type = "url" -> ~ParseRequestURIOk(strValue)
      [] OTHER -> FALSE

\* the loop over p.Validations, from rule i on
RECURSIVE CheckRules(_, _, _)
CheckRules(rules, strValue, i) ==
    IF i > Len(rules) THEN NoErr
    ELSE IF RuleFails(rules[i], strValue) THEN Err(Errorf(rules[i].Message))
    ELSE CheckRules(rules, strValue, i + 1)

\* Validate without the early return for an empty optional value
Validate_NoEmptySkip(p, value) ==
    IF value = Nil
    THEN IF p.Required THEN Err(RequiredText(p.Name)) ELSE NoErr
    ELSE LET strValue == Stringify(value) IN
         IF p.Required /\ strValue = <<>> THEN Err(RequiredText(p.Name))
         ELSE CheckRules(p.Validations, strValue, 1)

Validate(p, value) ==
    IF value = Nil
    THEN IF p.Required THEN Err(RequiredText(p.Name)) ELSE NoErr
    ELSE LET strValue == Stringify(value) IN
         IF p.Required /\ strValue = <<>> THEN Err(RequiredText(p.Name))
         ELSE IF strValue = <<>> /\ ~p.Required THEN NoErr
         ELSE CheckRules(p.Validations, strValue, 1)

-----------------------------------------------------------------------------
(* APIRouter.Register *)

LowerLetters == <<"a", "b", "c", "d", "e", "f", "g", "h", "i", "j", "k", "l", "m",
                  "n", "o", "p", "q", "r", "s", "t", "u", "v", "w", "x", "y", "z">>
UpperLetters == <<"A", "B", "C", "D", "E", "F", "G", "H", "I", "J", "K", "L", "M",
                  "N", "O", "P", "Q", "R", "S", "T", "U", "V", "W", "X", "Y", "Z">>
IsLower(c) == \E i \in 1..26 : LowerLetters[i] = c
IsUpper(c) == \E i \in 1..26 : UpperLetters[i] = c
UpperChar(c) == IF IsLower(c) THEN UpperLetters[CHOOSE i \in 1..26 : LowerLetters[i] = c] ELSE c
LowerChar(c) == IF IsUpper(c) THEN LowerLetters[CHOOSE i \in 1..26 : UpperLetters[i] = c] ELSE c

\* strings.ToUpper, strings.ToLower
ToUpper(s) == [i \in 1..Len(s) |-> UpperChar(s[i])]
ToLower(s) == [i \in 1..Len(s) |-> LowerChar(s[i])]

\* net/http's method names
MethodGet == <<"G", "E", "T">>
MethodPost == <<"P", "O", "S", "T">>
MethodPut == <<"P", "U", "T">>
MethodDelete == <<"D", "E", "L", "E", "T", "E">>
MethodPatch == <<"P", "A", "T", "C", "H">>
SupportedMethods == {MethodGet, MethodPost, MethodPut, MethodDelete, MethodPatch}

\* net/http's status codes
StatusOK == 200
StatusBadRequest == 400
StatusUnsupportedMediaType == 415
StatusInternalServerError == 500

\* Register's checks without the check of the path
RegisterError_NoPathCheck(api) ==
    IF api = Nil THEN "api definition cannot be nil"
    ELSE IF api.NativeHandler = Nil /\ api.Handler = Nil THEN "handler cannot be nil"
    ELSE IF ToUpper(api.Method) \notin SupportedMethods THEN "unsupported HTTP method"
    ELSE "nil"

\* Register's handler check as "exactly one handler"
RegisterError_ExactlyOne(api) ==
    IF api = Nil THEN "api definition cannot be nil"
    ELSE IF (api.NativeHandler = Nil) = (api.Handler = Nil) THEN "handler cannot be nil"
    ELSE IF api.Path = <<>> THEN "path cannot be empty"
    ELSE IF ToUpper(api.Method) \notin SupportedMethods THEN "unsupported HTTP method"
    ELSE "nil"

\* the error Register returns before it touches the router ("nil": none)
RegisterError(api) ==
    IF api = Nil THEN "api definition cannot be nil"
    ELSE IF api.NativeHandler = Nil /\ api.Handler = Nil THEN "handler cannot be nil"
    ELSE IF api.Path = <<>> THEN "path cannot be empty"
    ELSE IF ToUpper(api.Method) \notin SupportedMethods THEN "unsupported HTTP method"
    ELSE "nil"

\* r.Register(api). The route handler is a closure over the pointer api and
\* the upper-cased method; the definition list gets a copy of *api.
Register(api) ==
    LET err == RegisterError(api) IN
    /\ ret' = [op |-> "Register", arg |-> api, err |-> err]
    /\ IF err # "nil"
       THEN UNCHANGED <<definitions, heap, routes>>
       ELSE /\ heap' = Append(heap, api)
            /\ routes' = Append(routes, [method |-> ToUpper(api.Method),
                                         fullPath |-> basePath \o api.Path,
                                         api |-> Len(heap) + 1])
            /\ definitions' = Append(definitions, api)
    /\ UNCHANGED <<basePath, title, version, description, securitySchemes,
                   globalSecurity, swaggerDoc, generated>>

\* The builder methods, called on a definition the caller still holds after
\* Register: c is its place in the heap, the object the route's closure
\* captured. r.definitions holds a copy of the struct; append never writes
\* below the length the copy's Params slice has.

\* api.WithParam(name, in, description, required, validations...)
WithParam(c, param) ==
    /\ heap' = [heap EXCEPT ![c].Params = Append(@, param)]
    /\ UNCHANGED <<definitions, routes, basePath, title, version, description,
                   securitySchemes, globalSecurity, swaggerDoc, generated, ret>>

\* api.WithHandler(handler)
WithHandler(c, handler) ==
    /\ heap' = [heap EXCEPT ![c].Handler = handler]
    /\ UNCHANGED <<definitions, routes, basePath, title, version, description,
                   securitySchemes, globalSecurity, swaggerDoc, generated, ret>>

\* api.WithRequest(req)
WithRequest(c, req) ==
    /\ heap' = [heap EXCEPT ![c].Request = req]
    /\ UNCHANGED <<definitions, routes, basePath, title, version, description,
                   securitySchemes, globalSecurity, swaggerDoc, generated, ret>>

-----------------------------------------------------------------------------
(* The route handler Register installs *)

\* A request: the values it carries by name in each location (a name outside
\* the DOMAIN is absent) and whether its body decodes as JSON.
ContentTypeName == <<"C", "o", "n", "t", "e", "n", "t", "-", "T", "y", "p", "e">>
ApplicationJson == <<"a", "p", "p", "l", "i", "c", "a", "t", "i", "o", "n", "/", "j", "s", "o", "n">>

\* c.Param(name), c.Query(name), c.GetHeader(name): "" when absent
Lookup(req, in, name) ==
    IF name \in DOMAIN req[in] THEN req[in][name] ELSE <<>>

Pass == [status |-> 0]
Reject(status, kind, in, name) ==
    [status |-> status, called |-> "none", error |-> [kind |-> kind, in |-> in, name |-> name]]

\* the loop over api.Params for one location, from parameter i on: Pass, or
\* the answer the handler aborts with
RECURSIVE CheckParams(_, _, _, _)
CheckParams(params, req, in, i) ==
    IF i > Len(params) THEN Pass
    ELSE LET param == params[i] IN
         IF param.In # in THEN CheckParams(params, req, in, i + 1)
         ELSE IF in = "cookie"
         THEN \* c.Cookie returns an error only when the request has no such cookie
              IF param.Name \notin DOMAIN req.cookie
              THEN IF param.Required
                   THEN Reject(StatusBadRequest, "missing", in, param.Name)
                   ELSE CheckParams(params, req, in, i + 1)
              ELSE LET value == req.cookie[param.Name] IN
                   IF value # <<>> /\ Validate(param, StrV(value)).err
                   THEN Reject(StatusBadRequest, "invalid", in, param.Name)
                   ELSE CheckParams(params, req, in, i + 1)
         ELSE LET value == Lookup(req, in, param.Name) IN
              IF param.Required /\ value = <<>>
              THEN Reject(StatusBadRequest, "missing", in, param.Name)
              ELSE IF value # <<>> /\ Validate(param, StrV(value)).err
              THEN Reject(StatusBadRequest, "invalid", in, param.Name)
              ELSE CheckParams(params, req, in, i + 1)

\* the four loops, in the handler's order
CheckAllParams(params, req) ==
    LET p == CheckParams(params, req, "path", 1)
        q == CheckParams(params, req, "query", 1)
        h == CheckParams(params, req, "header", 1)
        c == CheckParams(params, req, "cookie", 1)
    IN  IF p # Pass THEN p ELSE IF q # Pass THEN q ELSE IF h # Pass THEN h ELSE c

\* the body check that tests the definition's own Method, not the upper-cased one
BodyChecked_RawMethod(api, method) ==
    api.Request # Nil /\ api.Method \in {MethodPost, MethodPut, MethodPatch}

\* whether the handler checks Content-Type and body
BodyChecked(api, method) ==
    api.Request # Nil /\ method \in {MethodPost, MethodPut, MethodPatch}

\* the call of the actual handler: a gin.HandlerFunc NativeHandler first,
\* else the standard Handler, else nothing
CallHandler(api) ==
    IF api.NativeHandler # Nil /\ api.NativeHandler.k = "gin.HandlerFunc"
    THEN [status |-> api.NativeHandler.status, called |-> "native"]
    ELSE IF api.Handler # Nil
    THEN [status |-> api.Handler.status, called |-> "standard"]
    ELSE [status |-> StatusOK, called |-> "none"]

\* the closure registered with the engine, run on one request. api is the
\* captured object as it is now, method the captured upper-cased method.
ServeRoute(api, method, req) ==
    LET checked == CheckAllParams(api.Params, req)
        contentType == Lookup(req, "header", ContentTypeName)
    IN  IF checked # Pass THEN checked
        ELSE IF BodyChecked(api, method) /\ contentType # <<>>
                /\ ~HasPrefix(contentType, ApplicationJson)
        THEN Reject(StatusUnsupportedMediaType, "content-type", "body", <<>>)
        ELSE IF BodyChecked(api, method) /\ ~req.bodyOK    \* c.ShouldBindJSON fails
        THEN Reject(StatusBadRequest, "body", "body", <<>>)
        ELSE CallHandler(api)

NoRequest == [route |-> 0]
NoResponse == [status |-> 0]

\* the engine dispatches a request to route r
Serve(r, req) ==
    /\ request = NoRequest
    /\ request' = [route |-> r, req |-> req]
    /\ response' = ServeRoute(heap[routes[r].api], routes[r].method, req)

\* the response is written and the request ends
Complete ==
    /\ request # NoRequest
    /\ request' = NoRequest
    /\ response' = NoResponse

-----------------------------------------------------------------------------
(* Schema synthesis: SafeSchemaFromStruct, SchemaFromStruct, createSchemaFromGoType *)

\* A Go type is a descriptor [kind |-> reflect.Kind, ...]: a struct has a name
\* and fields, a pointer, slice, array or map has an elem. A field has a Name,
\* a Type and a Tag, a record of the tag's keys (Tag.Get). An interface{}
\* value is Nil or [k |-> "value", type |-> its dynamic type].
ValueOf(t) == [k |-> "value", type |-> t]
\* (*T)(nil): an interface value that is not nil, of type pointer to t, whose
\* pointer is nil. reflect.TypeOf reads its type all the same.
NilPointerTo(t) == [k |-> "value", type |-> [kind |-> "ptr", elem |-> t], isNil |-> TRUE]

EmptyMap == <<>>
EmptyObjectSchema == [type |-> "object", properties |-> EmptyMap]
SchemaOk(schema) == [err |-> FALSE, schema |-> schema]
SchemaErr(msg) == [err |-> TRUE, msg |-> msg]

Comma == ","
TagOmitempty == <<"o", "m", "i", "t", "e", "m", "p", "t", "y">>
TagRequired == <<"r", "e", "q", "u", "i", "r", "e", "d">>
TagDash == <<"-">>

FirstIndex(s, c) == CHOOSE i \in 1..Len(s) : s[i] = c /\ \A j \in 1..(i - 1) : s[j] # c

\* strings.Split(s, sep) for a one-character sep
RECURSIVE Split(_, _)
Split(s, sep) ==
    IF ~Contains(s, sep) THEN <<s>>
    ELSE LET i == FirstIndex(s, sep) IN
         <<SubSeq(s, 1, i - 1)>> \o Split(SubSeq(s, i + 1, Len(s)), sep)

Elems(seq) == {seq[i] : i \in 1..Len(seq)}

\* the json tag's name and whether the tags make the field required
FieldJsonName(tag) == IF Contains(tag.json, Comma) THEN Split(tag.json, Comma)[1] ELSE tag.json
\* a required rule in which omitempty wins over validate:"required"
FieldRequired_OmitWins(tag) ==
    ~(Contains(tag.json, Comma) /\ TagOmitempty \in Elems(Tail(Split(tag.json, Comma))))

FieldRequired(tag) ==
    LET omit == Contains(tag.json, Comma)
                  /\ TagOmitempty \in Elems(Tail(Split(tag.json, Comma)))
        forced == tag.validate # <<>> /\ TagRequired \in Elems(Split(tag.validate, Comma))
    IN  forced \/ ~omit

\* the doc, example and format tags laid over a field's schema
WithTags(schema, tag) ==
    LET d == IF tag.doc # "" THEN ("description" :> tag.doc) ELSE EmptyMap
        e == IF tag.example # "" THEN ("example" :> tag.example) ELSE EmptyMap
        f == IF tag.format # "" THEN ("format" :> tag.format) ELSE EmptyMap
    IN  f @@ e @@ d @@ schema

\* the goroutine's stack is exhausted: the runtime ends the process with
\* "fatal error: stack overflow", which no recover() sees
StackOverflow == [fatal |-> "stack overflow"]

RECURSIVE Reenters(_)
\* createSchemaFromGoType(t) comes back to a struct type it is already in:
\* [kind |-> "again"] stands for the enclosing struct type of that name, met
\* again under a pointer, slice, array or map, or as the type of a field that
\* is not skipped. Nothing on the way returns early, so the calls nest
\* without end.
Reenters(t) ==
    CASE t.kind = "again" -> TRUE
      [] t.kind \in {"ptr", "slice", "array", "map"} -> Reenters(t.elem)
      [] t.kind = "struct" ->
            /\ t.name # "time.Time"
            /\ t.timeMethod = Nil
            /\ \E i \in 1..Len(t.fields) :
                  /\ t.fields[i].Tag.json \notin {<<>>, TagDash}
                  /\ Reenters(t.fields[i].Type)
      [] OTHER -> FALSE
\* the field loop of SchemaFromStruct on struct type t never ends
FieldsReenter(t) ==
    \E i \in 1..Len(t.fields) :
        /\ t.fields[i].Tag.json \notin {<<>>, TagDash}
        /\ Reenters(t.fields[i].Type)

RECURSIVE createSchemaFromGoType(_, _)
RECURSIVE StructFields(_, _, _, _, _)

\* SchemaFromStruct on a value of struct type t (or of type pointer to t):
\* the loop over the fields from field i on, with the properties and the
\* required list built so far
StructFields(t, i, props, required, now) ==
    IF i > Len(t.fields)
    THEN SchemaOk(IF required # <<>>
                  THEN [type |-> "object", properties |-> props, required |-> required]
                  ELSE [type |-> "object", properties |-> props])
    ELSE LET field == t.fields[i] IN
         IF field.Tag.json = <<>> \/ field.Tag.json = TagDash
         THEN StructFields(t, i + 1, props, required, now)
         ELSE LET name == FieldJsonName(field.Tag) IN
              Only({IF sub.err THEN SchemaErr("failed to create schema for field")
                    ELSE StructFields(t, i + 1,
                                      (name :> WithTags(sub.schema, field.Tag)) @@ props,
                                      IF FieldRequired(field.Tag) THEN Append(required, name)
                                      ELSE required,
                                      now) :
                    sub \in {createSchemaFromGoType(field.Type, now)}})

\* createSchemaFromGoType(t); now is what time.Now() reads
createSchemaFromGoType(t, now) ==
    CASE t.kind = "string" -> SchemaOk([type |-> "string"])
      [] t.kind \in {"int", "int8", "int16", "int32"} ->
            SchemaOk([type |-> "integer", format |-> "int32"])
      [] t.kind = "int64" -> SchemaOk([type |-> "integer", format |-> "int64"])
      [] t.kind \in {"uint", "uint8", "uint16", "uint32"} ->
            SchemaOk([type |-> "integer", format |-> "int32", minimum |-> 0])
      [] t.kind = "uint64" -> SchemaOk([type |-> "integer", format |-> "int64", minimum |-> 0])
      [] t.kind = "float32" -> SchemaOk([type |-> "number", format |-> "float"])
      [] t.kind = "float64" -> SchemaOk([type |-> "number", format |-> "double"])
      [] t.kind = "bool" -> SchemaOk([type |-> "boolean"])
      [] t.kind \in {"slice", "array"} ->
            IF t.kind = "slice" /\ t.elem.kind = "uint8"
            THEN SchemaOk([type |-> "string", format |-> "byte"])
            ELSE Only({IF e.err THEN SchemaErr("failed to create schema for array element")
                       ELSE SchemaOk([type |-> "array", items |-> e.schema]) :
                       e \in {createSchemaFromGoType(t.elem, now)}})
      [] t.kind = "struct" ->
            IF t.name = "time.Time"
            THEN SchemaOk([type |-> "string", format |-> "date-time", example |-> now])
            ELSE IF t.timeMethod # Nil      \* the type has a method Time() time.Time
            THEN SchemaOk([type |-> "string", format |-> "date-time",
                           example |-> t.timeMethod.example])
            ELSE Only({IF r.err THEN SchemaErr("failed to create schema for struct") ELSE r :
                       r \in {StructFields(t, 1, EmptyMap, <<>>, now)}})
      [] t.kind = "ptr" -> createSchemaFromGoType(t.elem, now)
      [] t.kind = "again" -> StackOverflow
      [] t.kind = "interface" ->
            SchemaOk([type |-> "object", additionalProperties |-> TRUE])
      [] t.kind = "map" ->
            Only({IF e.err THEN SchemaErr("failed to create schema for map value type")
                  ELSE SchemaOk([type |-> "object", additionalProperties |-> e.schema]) :
                  e \in {createSchemaFromGoType(t.elem, now)}})
      [] OTHER -> SchemaOk([type |-> "string"])

\* a type read without taking the pointer level off
Deref_None(t) == t

\* reflect.TypeOf(v), with one pointer level taken off
Deref(t) == IF t.kind = "ptr" THEN t.elem ELSE t

SchemaFromStruct(v, now) ==
    IF v = Nil THEN SchemaOk(EmptyObjectSchema)
    ELSE LET t == Deref(v.type) IN
         IF t.kind # "struct" THEN SchemaErr("input must be a struct type")
         ELSE IF FieldsReenter(t) THEN StackOverflow
         ELSE StructFields(t, 1, EmptyMap, <<>>, now)

\* a synthesis that answers the empty object schema for a type that is no struct
SafeSchemaFromStruct_NeverFails(v, now) ==
    IF v = Nil THEN SchemaOk(EmptyObjectSchema)
    ELSE LET t == Deref(v.type) IN
         IF t.kind # "struct" THEN SchemaOk(EmptyObjectSchema)
         ELSE StructFields(t, 1, EmptyMap, <<>>, now)

SafeSchemaFromStruct(v, now) ==
    IF v = Nil THEN SchemaOk(EmptyObjectSchema)
    ELSE LET t == Deref(v.type) IN
         IF t.kind # "struct" THEN SchemaErr("invalid type provided")
         ELSE Only({IF "fatal" \in DOMAIN r THEN r
                    ELSE IF r.err THEN SchemaErr("failed to generate schema") ELSE r :
                    r \in {SchemaFromStruct(v, now)}})

-----------------------------------------------------------------------------
(* APIRouter.BuildOpenAPI and APIRouter.GenerateSwagger *)

ZeroPathItem == [Get |-> Nil, Post |-> Nil, Put |-> Nil, Delete |-> Nil, Patch |-> Nil]
ResponseOf(text) == [Description |-> text, Content |-> Nil]
JsonContent(schema) == [Schema |-> schema]

\* the switch on apiDef.Method that stores the operation in the path item
SetOperation(pathItem, method, operation) ==
    CASE method = MethodGet -> [pathItem EXCEPT !.Get = operation]
      [] method = MethodPost -> [pathItem EXCEPT !.Post = operation]
      [] method = MethodPut -> [pathItem EXCEPT !.Put = operation]
      [] method = MethodDelete -> [pathItem EXCEPT !.Delete = operation]
      [] method = MethodPatch -> [pathItem EXCEPT !.Patch = operation]
      [] OTHER -> pathItem

\* the operation BuildOpenAPI builds for one definition, given the schemas
BuildOperation(apiDef, reqSchema, respSchema) ==
    LET ok200 == IF apiDef.Response # Nil
                 THEN ("200" :> [Description |-> "Success", Content |-> JsonContent(respSchema)])
                 ELSE EmptyMap
    IN  [Summary |-> apiDef.Summary,
         Description |-> apiDef.Description,
         OperationID |-> <<>>,
         Tags |-> apiDef.Tags,
         Parameters |-> apiDef.Params,
         RequestBody |-> IF apiDef.Request # Nil THEN JsonContent(reqSchema) ELSE Nil,
         Responses |-> ("400" :> ResponseOf("Bad Request"))
                         @@ ("500" :> ResponseOf("Internal Server Error")) @@ ok200,
         Security |-> <<>>]

\* the loop of BuildOpenAPI over r.definitions from definition i on, with the
\* paths built so far: the paths, or the error of the first schema that fails
RECURSIVE BuildPaths(_, _, _, _)
BuildPaths(defs, i, paths, now) ==
    IF i > Len(defs) THEN [err |-> "nil", paths |-> paths]
    ELSE LET apiDef == defs[i]
             pathItem == IF apiDef.Path \in DOMAIN paths THEN paths[apiDef.Path]
                         ELSE ZeroPathItem
         IN  Only({IF req.err THEN [err |-> "failed to generate request schema"]
                   ELSE IF resp.err THEN [err |-> "failed to generate response schema"]
                   ELSE BuildPaths(defs, i + 1,
                                   (apiDef.Path :> SetOperation(pathItem, apiDef.Method,
                                                     BuildOperation(apiDef, req.schema, resp.schema)))
                                     @@ paths,
                                   now) :
                   req \in {IF apiDef.Request # Nil
                            THEN SafeSchemaFromStruct(apiDef.Request, now) ELSE SchemaOk(Nil)},
                   resp \in {IF apiDef.Response # Nil
                             THEN SafeSchemaFromStruct(apiDef.Response, now) ELSE SchemaOk(Nil)}})

\* r.BuildOpenAPI()
BuildOpenAPI(now) ==
    Only({IF built.err # "nil" THEN [err |-> built.err]
          ELSE [err |-> "nil",
                doc |-> [OpenAPI |-> "3.0.0",
                         Info |-> [Title |-> title, Version |-> version,
                                   Description |-> description],
                         Servers |-> <<[URL |-> basePath, Description |-> "API Server"]>>,
                         Paths |-> built.paths,
                         Components |-> [SecuritySchemes |-> securitySchemes],
                         Security |-> globalSecurity]] :
          built \in {BuildPaths(definitions, 1, EmptyMap, now)}})

IsAlnum(c) == IsLower(c) \/ IsUpper(c) \/ IsDigit(c)

\* regexp \{[^}]+\} replaced by "": a "{" with a "}" two or more places on
RECURSIVE StripPlaceholders(_)
StripPlaceholders(s) ==
    IF s = <<>> THEN <<>>
    ELSE LET closes == {j \in 2..Len(s) : s[j] = "}"}
             close == CHOOSE j \in closes : \A k \in closes : j <= k
         IN  IF s[1] = "{" /\ closes # {} /\ close > 2
             THEN StripPlaceholders(SubSeq(s, close + 1, Len(s)))
             ELSE <<s[1]>> \o StripPlaceholders(Tail(s))

\* regexp [^a-zA-Z0-9] replaced by "_"
Underscored(s) == [i \in 1..Len(s) |-> IF IsAlnum(s[i]) THEN s[i] ELSE "_"]

\* regexp _+ replaced by "_"
RECURSIVE Collapsed(_)
Collapsed(s) ==
    IF Len(s) < 2 THEN s
    ELSE IF s[1] = "_" /\ s[2] = "_" THEN Collapsed(Tail(s))
    ELSE <<s[1]>> \o Collapsed(Tail(s))

\* strings.Trim(s, "_")
RECURSIVE Trimmed(_)
Trimmed(s) ==
    IF s = <<>> THEN s
    ELSE IF s[1] = "_" THEN Trimmed(Tail(s))
    ELSE IF s[Len(s)] = "_" THEN Trimmed(SubSeq(s, 1, Len(s) - 1))
    ELSE s

WordOperation == <<"o", "p", "e", "r", "a", "t", "i", "o", "n">>

\* an identifier built without the pass over consecutive underscores
generateOperationID_NoCollapse(path, op) ==
    LET prefix == IF Len(op.Tags) > 0 THEN ToLower(op.Tags[1]) ELSE WordOperation
    IN  prefix \o <<"_">> \o Trimmed(Underscored(StripPlaceholders(path)))

generateOperationID(path, op) ==
    LET prefix == IF Len(op.Tags) > 0 THEN ToLower(op.Tags[1]) ELSE WordOperation
    IN  prefix \o <<"_">> \o Trimmed(Collapsed(Underscored(StripPlaceholders(path))))

\* GenerateSwagger's pass over one operation: the default responses that are
\* still missing and the operation id
WithDefaults(path, op) ==
    IF op = Nil THEN Nil
    ELSE LET secured == Len(op.Security) > 0
             r401 == IF secured
                     THEN ("401" :> ResponseOf("Unauthorized - Authentication required"))
                     ELSE EmptyMap
             r403 == IF secured
                     THEN ("403" :> ResponseOf("Forbidden - Insufficient permissions"))
                     ELSE EmptyMap
             responses == op.Responses
                            @@ ("400" :> ResponseOf("Bad Request - Invalid input parameters"))
                            @@ r401 @@ r403
                            @@ ("500" :> ResponseOf("Internal Server Error"))
         IN  [op EXCEPT !.Responses = responses,
                        !.OperationID = IF op.OperationID = <<>>
                                        THEN generateOperationID(path, op) ELSE @]

PathItemWithDefaults(path, item) ==
    [Get |-> WithDefaults(path, item.Get), Post |-> WithDefaults(path, item.Post),
     Put |-> WithDefaults(path, item.Put), Delete |-> WithDefaults(path, item.Delete),
     Patch |-> WithDefaults(path, item.Patch)]

\* json.MarshalIndent of the document: the JSON tree, a key that is
\* omitempty and empty left out. The encoder sorts map keys, so the tree
\* stands for the bytes.
OmitKeys(obj, keys) == [k \in (DOMAIN obj) \ keys |-> obj[k]]
MarshalParameter(param) ==
    [name |-> param.Name, in |-> param.In, required |-> param.Required]
MarshalOperation(op) ==
    LET all == [summary |-> op.Summary, description |-> op.Description,
                operationId |-> op.OperationID, tags |-> op.Tags,
                parameters |-> [i \in 1..Len(op.Parameters) |-> MarshalParameter(op.Parameters[i])],
                requestBody |-> op.RequestBody, responses |-> op.Responses,
                security |-> op.Security]
    IN  OmitKeys(all, (IF op.OperationID = <<>> THEN {"operationId"} ELSE {})
                        \cup (IF op.Parameters = <<>> THEN {"parameters"} ELSE {})
                        \cup (IF op.RequestBody = Nil THEN {"requestBody"} ELSE {})
                        \cup (IF op.Security = <<>> THEN {"security"} ELSE {}))
MarshalPathItem(item) ==
    LET all == [get |-> item.Get, post |-> item.Post, put |-> item.Put,
                delete |-> item.Delete, patch |-> item.Patch]
    IN  [k \in {m \in DOMAIN all : all[m] # Nil} |-> MarshalOperation(all[k])]
MarshalIndent(doc) ==
    LET all == [openapi |-> doc.OpenAPI, info |-> doc.Info, servers |-> doc.Servers,
                paths |-> [p \in DOMAIN doc.Paths |-> MarshalPathItem(doc.Paths[p])],
                components |-> IF doc.Components.SecuritySchemes = EmptyMap THEN EmptyMap
                               ELSE [securitySchemes |-> doc.Components.SecuritySchemes],
                security |-> doc.Security]
    IN  OmitKeys(all, IF doc.Security = <<>> THEN {"security"} ELSE {})

\* a generation that also asks for a description
GenerateResult_DescriptionChecked(now) ==
    IF title = <<>> THEN [err |-> "API title is required", doc |-> Nil]
    ELSE IF version = <<>> THEN [err |-> "API version is required", doc |-> Nil]
    ELSE IF description = <<>> THEN [err |-> "API description is required", doc |-> Nil]
    ELSE Only({IF built.err # "nil"
               THEN [err |-> "failed to build OpenAPI document", doc |-> Nil]
               ELSE IF DOMAIN built.doc.Paths = {}
               THEN [err |-> "no API paths defined", doc |-> Nil]
               ELSE [err |-> "nil",
                     doc |-> [built.doc EXCEPT !.Paths =
                                [p \in DOMAIN @ |-> PathItemWithDefaults(p, @[p])]]] :
               built \in {BuildOpenAPI(now)}})

\* a generation that does not look at the version
GenerateResult_NoVersionCheck(now) ==
    IF title = <<>> THEN [err |-> "API title is required", doc |-> Nil]
    ELSE Only({IF built.err # "nil"
               THEN [err |-> "failed to build OpenAPI document", doc |-> Nil]
               ELSE IF DOMAIN built.doc.Paths = {}
               THEN [err |-> "no API paths defined", doc |-> Nil]
               ELSE [err |-> "nil",
                     doc |-> [built.doc EXCEPT !.Paths =
                                [p \in DOMAIN @ |-> PathItemWithDefaults(p, @[p])]]] :
               built \in {BuildOpenAPI(now)}})

\* what r.GenerateSwagger() returns: the error ("nil": none) and the document;
\* now is what time.Now() reads during the call
GenerateResult(now) ==
    IF title = <<>> THEN [err |-> "API title is required", doc |-> Nil]
    ELSE IF version = <<>> THEN [err |-> "API version is required", doc |-> Nil]
    ELSE Only({IF built.err # "nil"
               THEN [err |-> "failed to build OpenAPI document", doc |-> Nil]
               ELSE IF DOMAIN built.doc.Paths = {}
               THEN [err |-> "no API paths defined", doc |-> Nil]
               ELSE [err |-> "nil",
                     doc |-> [built.doc EXCEPT !.Paths =
                                [p \in DOMAIN @ |-> PathItemWithDefaults(p, @[p])]]] :
               built \in {BuildOpenAPI(now)}})

\* a GenerateSwagger that clears the flag when it fails
GenerateSwagger_ClearsOnError(now) ==
    \E res \in {GenerateResult(now)} :
        /\ ret' = [op |-> "GenerateSwagger", err |-> res.err, doc |-> res.doc]
        /\ IF res.err # "nil"
           THEN generated' = FALSE /\ UNCHANGED swaggerDoc
           ELSE /\ swaggerDoc' = MarshalIndent(res.doc)
                /\ generated' = TRUE
        /\ UNCHANGED <<definitions, heap, routes, basePath, title, version, description,
                       securitySchemes, globalSecurity>>

\* r.GenerateSwagger()
GenerateSwagger(now) ==
    \E res \in {GenerateResult(now)} :
        /\ ret' = [op |-> "GenerateSwagger", err |-> res.err, doc |-> res.doc]
        /\ IF res.err # "nil"
           THEN UNCHANGED <<swaggerDoc, generated>>
           ELSE /\ swaggerDoc' = MarshalIndent(res.doc)
                /\ generated' = TRUE
        /\ UNCHANGED <<definitions, heap, routes, basePath, title, version, description,
                       securitySchemes, globalSecurity>>

-----------------------------------------------------------------------------
(* APIRouter's setters, RegisterGroup and SwaggerHandler *)

routerRest == <<definitions, heap, routes, swaggerDoc, generated>>

\* a SetInfo that drops the cached document
SetInfo_Invalidates(t, v, d) ==
    /\ title' = t
    /\ version' = v
    /\ description' = d
    /\ swaggerDoc' = Nil
    /\ generated' = FALSE
    /\ ret' = [op |-> "SetInfo"]
    /\ UNCHANGED <<definitions, heap, routes, basePath, securitySchemes, globalSecurity>>

\* r.SetInfo(title, version, description)
SetInfo(t, v, d) ==
    /\ title' = t
    /\ version' = v
    /\ description' = d
    /\ ret' = [op |-> "SetInfo"]
    /\ UNCHANGED <<routerRest, basePath, securitySchemes, globalSecurity>>

\* r.SetBasePath(basePath)
SetBasePath(b) ==
    /\ basePath' = b
    /\ ret' = [op |-> "SetBasePath"]
    /\ UNCHANGED <<routerRest, title, version, description, securitySchemes, globalSecurity>>

\* r.securitySchemes[name] = scheme, the assignment of the five Add methods
PutScheme(name, scheme) ==
    /\ securitySchemes' = (name :> scheme) @@ securitySchemes
    /\ UNCHANGED <<routerRest, basePath, title, version, description, globalSecurity>>

AddBasicAuth(name, desc) ==
    /\ PutScheme(name, [Type |-> "http", Scheme |-> "basic", Description |-> desc])
    /\ ret' = [op |-> "AddBasicAuth"]

AddBearerAuth(name, desc, format) ==
    /\ PutScheme(name, [Type |-> "http", Scheme |-> "bearer", BearerFormat |-> format,
                        Description |-> desc])
    /\ ret' = [op |-> "AddBearerAuth"]

AddAPIKey(name, desc, in) ==
    /\ PutScheme(name, [Type |-> "apiKey", Name |-> name, In |-> in, Description |-> desc])
    /\ ret' = [op |-> "AddAPIKey"]

AddOAuth2(name, desc, flows) ==
    /\ PutScheme(name, [Type |-> "oauth2", Description |-> desc, Flows |-> flows])
    /\ ret' = [op |-> "AddOAuth2"]

AddOpenIDConnect(name, desc, url) ==
    /\ PutScheme(name, [Type |-> "openIdConnect", Description |-> desc,
                        OpenIDConnectURL |-> url])
    /\ ret' = [op |-> "AddOpenIDConnect"]

\* r.SetGlobalSecurity(requirements)
SetGlobalSecurity(requirements) ==
    /\ globalSecurity' = requirements
    /\ ret' = [op |-> "SetGlobalSecurity"]
    /\ UNCHANGED <<routerRest, basePath, title, version, description, securitySchemes>>

\* a tag assignment that replaces the tags a definition has
GroupTagged_Always(tag, api) == [api EXCEPT !.Tags = <<tag>>]

\* the loop variable of RegisterGroup after the tag assignment
GroupTagged(tag, api) ==
    IF Len(api.Tags) = 0 THEN [api EXCEPT !.Tags = <<tag>>] ELSE api

\* the loop of RegisterGroup from element i on, on the definitions, heap and
\* routes so far: r.Register(&api) for each element, ended by the first error.
\* index is the last element the loop variable held.
RECURSIVE GroupLoop(_, _, _, _)
GroupLoop(tag, apis, i, st) ==
    IF i > Len(apis) THEN [st EXCEPT !.err = "nil", !.index = Len(apis)]
    ELSE LET api == GroupTagged(tag, apis[i])
             err == RegisterError(api)
         IN  IF err # "nil" THEN [st EXCEPT !.err = err, !.index = i]
             ELSE GroupLoop(tag, apis, i + 1,
                      [st EXCEPT !.heap = Append(@, api),
                                 !.routes = Append(@, [method |-> ToUpper(api.Method),
                                                       fullPath |-> basePath \o api.Path,
                                                       api |-> Len(st.heap) + 1]),
                                 !.definitions = Append(@, api)])

\* r.RegisterGroup(tag, apis). Each route handler holds the address of the
\* loop variable: with one variable per iteration (shared = FALSE) every
\* handler keeps its own definition, with one variable for the whole loop
\* (shared = TRUE, the language before Go 1.22) all of them read the value
\* the variable held last. index in the result counts from 0, as the error
\* text does.
RegisterGroup(tag, apis, shared) ==
    IF tag = <<>> \/ Len(apis) = 0
    THEN /\ ret' = [op |-> "RegisterGroup", tag |-> tag, apis |-> apis, index |-> -1,
                    err |-> IF tag = <<>> THEN "tag cannot be empty"
                            ELSE "apis cannot be empty"]
         /\ UNCHANGED <<routerRest, basePath, title, version, description,
                        securitySchemes, globalSecurity>>
    ELSE LET done == GroupLoop(tag, apis, 1,
                               [definitions |-> definitions, heap |-> heap, routes |-> routes,
                                err |-> "nil", index |-> 0])
             last == GroupTagged(tag, apis[done.index])
         IN  /\ ret' = [op |-> "RegisterGroup", tag |-> tag, apis |-> apis,
                        index |-> IF done.err = "nil" THEN -1 ELSE done.index - 1,
                        err |-> IF done.err = "nil" THEN "nil" ELSE "failed to register API"]
             /\ definitions' = done.definitions
             /\ routes' = done.routes
             /\ heap' = IF shared
                        THEN [c \in 1..Len(done.heap) |->
                                 IF c > Len(heap) THEN last ELSE done.heap[c]]
                        ELSE done.heap
             /\ UNCHANGED <<swaggerDoc, generated, basePath, title, version, description,
                            securitySchemes, globalSecurity>>

ContentTypeJsonUtf8 == "application/json; charset=utf-8"

\* a handler that serves the cached bytes whatever the generated flag says
SwaggerResponse_IgnoresFlag(gen, doc) ==
    [status |-> StatusOK, contentType |-> ContentTypeJsonUtf8,
     cacheControl |-> "public, max-age=3600", etag |-> [md5 |-> doc], body |-> doc]

\* what SwaggerHandler answers, given r.generated and r.swaggerDoc; the ETag
\* is a digest of the bytes
SwaggerResponse(gen, doc) ==
    IF ~gen \/ doc = Nil
    THEN [status |-> StatusInternalServerError, contentType |-> ContentTypeJsonUtf8,
          body |-> [error |-> "Swagger documentation not available",
                    message |-> "Documentation was not generated at startup"]]
    ELSE [status |-> StatusOK, contentType |-> ContentTypeJsonUtf8,
          cacheControl |-> "public, max-age=3600", etag |-> [md5 |-> doc], body |-> doc]

\* r.SwaggerHandler(c)
SwaggerHandler ==
    /\ ret' = [op |-> "SwaggerHandler", response |-> SwaggerResponse(generated, swaggerDoc)]
    /\ UNCHANGED <<routerRest, basePath, title, version, description,
                   securitySchemes, globalSecurity>>

-----------------------------------------------------------------------------
(* GenerateSwagger and SwaggerHandler as goroutines running at the same time.
   No lock or atomic guards r.swaggerDoc and r.generated: each read and each
   write below is a step of its own. *)

\* r.swaggerDoc = data stores a slice header of three words; a read that
\* falls between the words sees the pointer of one slice with the length of
\* the other
TornSlice(old, new) == [torn |-> <<old, new>>]
\* what a read of the field may see
SliceReads(field) ==
    IF field # Nil /\ "torn" \in DOMAIN field
    THEN IF field.torn[1] = field.torn[2] THEN {field.torn[2]}
         ELSE {field.torn[1], field.torn[2], [mixed |-> field.torn]}
    ELSE {field}

\* a step of GenerateSwagger falls into every request that has begun and has
\* not returned
Overlapped == [h \in DOMAIN hpc |-> hRaced[h] \/ hpc[h] # "idle"]

\* GenerateSwagger up to json.MarshalIndent: everything but the two stores
GenerateBuild(now) ==
    /\ gpc = "idle"
    /\ \E res \in {GenerateResult(now)} :
          IF res.err # "nil"
          THEN /\ ret' = [op |-> "GenerateSwagger", err |-> res.err, doc |-> res.doc]
               /\ UNCHANGED <<gpc, gData, gMade>>
          ELSE /\ \E data \in {MarshalIndent(res.doc)} :
                      /\ gData' = [data |-> data, doc |-> res.doc]
                      /\ gMade' = gMade \cup {data}
               /\ gpc' = "marshalled"
               /\ UNCHANGED ret
    /\ UNCHANGED <<definitions, heap, routes, basePath, title, version, description,
                   securitySchemes, globalSecurity, swaggerDoc, generated>>
    /\ hRaced' = Overlapped
    /\ UNCHANGED <<hpc, hEtag, hResp>>

\* r.swaggerDoc = data, under way
GenerateStoreDoc ==
    /\ gpc = "marshalled"
    /\ swaggerDoc' = TornSlice(swaggerDoc, gData.data)
    /\ gpc' = "storing"
    /\ UNCHANGED <<definitions, heap, routes, basePath, title, version, description,
                   securitySchemes, globalSecurity, generated, ret>>
    /\ hRaced' = Overlapped
    /\ UNCHANGED <<hpc, hEtag, hResp, gData, gMade>>

\* r.swaggerDoc = data, complete
GenerateDocStored ==
    /\ gpc = "storing"
    /\ swaggerDoc' = gData.data
    /\ gpc' = "stored"
    /\ UNCHANGED <<definitions, heap, routes, basePath, title, version, description,
                   securitySchemes, globalSecurity, generated, ret>>
    /\ hRaced' = Overlapped
    /\ UNCHANGED <<hpc, hEtag, hResp, gData, gMade>>

\* r.generated = true; return doc, nil
GenerateStoreFlag ==
    /\ gpc = "stored"
    /\ generated' = TRUE
    /\ ret' = [op |-> "GenerateSwagger", err |-> "nil", doc |-> gData.doc]
    /\ gpc' = "idle"
    /\ gData' = Nil
    /\ UNCHANGED <<definitions, heap, routes, basePath, title, version, description,
                   securitySchemes, globalSecurity, swaggerDoc>>
    /\ hRaced' = Overlapped
    /\ UNCHANGED <<hpc, hEtag, hResp, gMade>>

\* if !r.generated || r.swaggerDoc == nil { c.JSON(500, ...); return }
HandlerCheck(h) ==
    /\ hpc[h] = "idle"
    /\ \E seen \in SliceReads(swaggerDoc) :
          IF ~generated \/ seen = Nil
          THEN /\ hResp' = [hResp EXCEPT ![h] = SwaggerResponse(FALSE, Nil)]
               /\ hpc' = [hpc EXCEPT ![h] = "done"]
          ELSE /\ hpc' = [hpc EXCEPT ![h] = "checked"]
               /\ UNCHANGED hResp
    /\ hRaced' = [hRaced EXCEPT ![h] = (gpc # "idle")]
    /\ UNCHANGED <<hEtag, gpc, gData, gMade>>
    /\ UNCHANGED routerVars

\* a handler that sets no digest
HandlerEtag_Empty(h) ==
    /\ hpc[h] = "checked"
    /\ hEtag' = [hEtag EXCEPT ![h] = [md5 |-> Nil]]
    /\ hpc' = [hpc EXCEPT ![h] = "tagged"]
    /\ UNCHANGED <<hResp, hRaced, gpc, gData, gMade>>
    /\ UNCHANGED routerVars

\* c.Header("ETag", fmt.Sprintf(`"%x"`, md5.Sum(r.swaggerDoc)))
HandlerEtag(h) ==
    /\ hpc[h] = "checked"
    /\ \E seen \in SliceReads(swaggerDoc) : hEtag' = [hEtag EXCEPT ![h] = [md5 |-> seen]]
    /\ hpc' = [hpc EXCEPT ![h] = "tagged"]
    /\ UNCHANGED <<hResp, hRaced, gpc, gData, gMade>>
    /\ UNCHANGED routerVars

\* c.Data(http.StatusOK, "application/json; charset=utf-8", r.swaggerDoc)
HandlerData(h) ==
    /\ hpc[h] = "tagged"
    /\ \E seen \in SliceReads(swaggerDoc) :
          hResp' = [hResp EXCEPT ![h] =
                       [status |-> StatusOK, contentType |-> ContentTypeJsonUtf8,
                        cacheControl |-> "public, max-age=3600", etag |-> hEtag[h],
                        body |-> seen]]
    /\ hpc' = [hpc EXCEPT ![h] = "done"]
    /\ UNCHANGED <<hEtag, hRaced, gpc, gData, gMade>>
    /\ UNCHANGED routerVars

\* the request is over; the goroutine serves the next one
HandlerReturn(h) ==
    /\ hpc[h] = "done"
    /\ hpc' = [hpc EXCEPT ![h] = "idle"]
    /\ hEtag' = [hEtag EXCEPT ![h] = Nil]
    /\ hResp' = [hResp EXCEPT ![h] = Nil]
    /\ hRaced' = [hRaced EXCEPT ![h] = FALSE]
    /\ UNCHANGED <<gpc, gData, gMade>>
    /\ UNCHANGED routerVars

-----------------------------------------------------------------------------
(* Inputs enumerated for Parameter.Validate *)

Rule(type, value, message) == [Type |-> type, Value |-> value, Message |-> message]
Param(name, in, required, rules) ==
    [Name |-> name, In |-> in, Required |-> required, Validations |-> rules]

NameId == <<"i", "d">>

MsgMin == <<"m", "i", "n">>
MsgMax == <<"m", "a", "x">>
MsgLen == <<"l", "e", "n">>
MsgPat == <<"p", "a", "t">>
MsgEnum == <<"e", "n", "u", "m">>
MsgUrl == <<"u", "r", "l">>
MsgBad == <<"b", "a", "d">>
\* messages that hold a "%": "50%", "%d", "%%", "a%b"
PercentMsgs == {<<"5", "0", "%">>, <<"%", "d">>, <<"%", "%">>, <<"a", "%", "b">>}

\* the README's and the test's rules: min 18.0, max 120.0, min 1, max 100
Float18 == FloatV(180)
Float120 == FloatV(1200)
Float1p5 == FloatV(15)
EnumMembers == <<StrV(<<"a">>), IntV(15)>>

MinMaxRules ==
    {Rule("min", Float18, MsgMin), Rule("min", Float1p5, MsgMin),
     Rule("max", Float120, MsgMax), Rule("max", Float1p5, MsgMax),
     Rule("min", IntV(1), MsgLen), Rule("min", IntV(2), MsgLen),
     Rule("max", IntV(100), MsgLen), Rule("max", IntV(2), MsgLen),
     Rule("min", StrV(<<"2">>), MsgMin)}

EnumRules ==
    {Rule("enum", IfaceSlice(EnumMembers), MsgEnum),
     Rule("enum", StringSlice(<<<<"a">>, <<"1", "5">>>>), MsgEnum)}

OtherRules ==
    {Rule("pattern", StrV(PatWord), MsgPat), Rule("pattern", StrV(PatBroken), MsgPat),
     Rule("email", Nil, MsgBad), Rule("url", Nil, MsgUrl), Rule("required", Nil, MsgBad)}

\* every rule of the model, one at a time
SingleRules == MinMaxRules \cup EnumRules \cup OtherRules
                 \cup {Rule("email", Nil, m) : m \in PercentMsgs}

\* the rules that rule lists are built from
ListRules ==
    {Rule("min", Float18, MsgMin), Rule("max", IntV(2), MsgLen),
     Rule("enum", IfaceSlice(EnumMembers), MsgEnum), Rule("url", Nil, MsgUrl),
     Rule("email", Nil, MsgBad)} \cup {Rule("email", Nil, m) : m \in PercentMsgs}

ValueAlphabet == {"1", "5", "a", ".", "-"}
Texts(alphabet, n) == UNION {[1..k -> alphabet] : k \in 0..n}

V20 == <<"2", "0">>
V15 == <<"1", "5">>
Vabc == <<"a", "b", "c">>
VMail == <<"a", "@", "b", ".", "c">>

\* values for a single rule: every text up to MaxLen, and the spec's examples
SingleValues ==
    {Nil, IntV(15), IntV(20)}
      \cup {StrV(s) : s \in Texts(ValueAlphabet, MaxLen)}
      \cup {StrV(V20), StrV(<<"1", "8">>), StrV(Vabc), StrV(VMail), StrV(<<"/", "a">>),
            StrV(<<"é">>), StrV(<<"1", "2", "0", "0">>)}

\* values for rule lists
ListValues ==
    {Nil, IntV(15), StrV(<<>>), StrV(V15), StrV(V20), StrV(Vabc), StrV(<<"a">>),
     StrV(VMail), StrV(<<"/", "a">>)}

RuleLists == UNION {[1..k -> ListRules] : k \in 0..MaxRules}

-----------------------------------------------------------------------------
(* Inputs enumerated for the router *)

Def(method, path, handler, native, req, params) ==
    [Method |-> method, Path |-> path, OperationID |-> <<>>, Summary |-> "summary",
     Description |-> "", Tags |-> <<>>, Request |-> req, Response |-> Nil,
     Params |-> params, Handler |-> handler, NativeHandler |-> native, Security |-> <<>>]

\* handlers, with the status each writes
StdHandler == [k |-> "http.HandlerFunc", status |-> 200]
GinHandler == [k |-> "gin.HandlerFunc", status |-> 201]
\* a NativeHandler value of another framework's type
OtherNative == [k |-> "echo.HandlerFunc"]

PathU == <<"/", "u">>
PathI == <<"/", "i", "/", "{", "i", "d", "}">>
NameTok == <<"t", "o", "k">>

Field(name, type, json, validate) ==
    [Name |-> name, Type |-> type,
     Tag |-> [json |-> json, validate |-> validate, doc |-> "", example |-> "", format |-> ""]]

\* type CreateUserRequest struct { U string `json:"u" validate:"required"`;
\*                                 A int `json:"a,omitempty"` }
CreateUserRequest ==
    [kind |-> "struct", name |-> "CreateUserRequest", timeMethod |-> Nil,
     fields |-> <<Field("U", [kind |-> "string"], <<"u">>, TagRequired),
                  Field("A", [kind |-> "int"], <<"a", ",">> \o TagOmitempty, <<>>)>>]
UserValue == ValueOf(CreateUserRequest)
StringValue == ValueOf([kind |-> "string"])

\* what time.Now() may read during a GenerateSwagger call
Clock == {"2026-01-01T00:00:00Z", "2026-01-01T00:00:01Z"}

TextGet == <<"g", "e", "t">>
TextPost == <<"P", "o", "s", "t">>
TextPatch == <<"p", "a", "t", "c", "h">>
TextPut == <<"P", "u", "t">>
TextDelete == <<"d", "e", "l", "e", "t", "e">>
TextHead == <<"H", "E", "A", "D">>

\* the definitions offered to Register: every method text on one route, every
\* path and handler pair with GET, and two request types
RegMethods == {MethodGet, TextGet, TextPost, MethodPut, MethodDelete, TextPatch, TextHead, <<>>}
RegDefs ==
    {Def(m, PathU, StdHandler, Nil, Nil, <<>>) : m \in RegMethods}
      \cup {Def(MethodGet, path, h, n, Nil, <<>>) :
              path \in {<<>>, PathU, PathI}, h \in {Nil, StdHandler}, n \in {Nil, GinHandler}}
      \cup {Def(MethodPost, PathI, StdHandler, Nil, req, <<>>) : req \in {UserValue, StringValue}}

Locations == {"path", "query", "header", "cookie"}

\* the definitions of the routes that serve requests: one parameter in each
\* location, required or with a rule; a body route in every method; every
\* handler pair
ParamDefs ==
    {Def(MethodGet, PathU, StdHandler, Nil, Nil, <<Param(NameId, in, req, rules)>>) :
        in \in Locations, req \in BOOLEAN, rules \in {<<>>, <<Rule("min", Float18, MsgMin)>>}}
      \cup {Def(MethodGet, PathU, StdHandler, Nil, Nil,
                <<Param(NameId, "query", TRUE, <<>>), Param(NameTok, "cookie", TRUE, <<>>)>>)}
BodyMethods == {MethodPost, TextPost, TextPut, TextPatch, MethodGet, TextDelete}
BodyDefs ==
    {Def(m, PathU, StdHandler, Nil, req, params) :
        m \in BodyMethods, req \in {Nil, UserValue},
        params \in {<<>>, <<Param(NameId, "query", TRUE, <<>>)>>}}
HandlerDefs ==
    {Def(MethodGet, PathU, h, n, Nil, <<>>) :
        h \in {Nil, StdHandler}, n \in {GinHandler, OtherNative}}
ReqDefs == ParamDefs \cup BodyDefs \cup HandlerDefs

TextPlain == <<"t", "e", "x", "t", "/", "p", "l", "a", "i", "n">>
JsonUtf8 == ApplicationJson \o <<";", " ", "c", "h", "a", "r", "s", "e", "t", "=", "u", "t", "f", "-", "8">>
ContentTypes == {ApplicationJson, JsonUtf8, TextPlain}
ReqTexts == {<<>>, V20, <<"5">>}

\* the requests for a route of definition api: in each location any of the
\* declared names absent or with a text, any Content-Type or none, a body
\* that decodes or not
NamesIn(api, in) == {api.Params[i].Name : i \in {j \in 1..Len(api.Params) : api.Params[j].In = in}}
Carried(names) == UNION {[D -> ReqTexts] : D \in SUBSET names}
Requests(api) ==
    {[path |-> p, query |-> q, header |-> h @@ ct, cookie |-> c, bodyOK |-> b] :
        p \in Carried(NamesIn(api, "path")), q \in Carried(NamesIn(api, "query")),
        h \in Carried(NamesIn(api, "header")), c \in Carried(NamesIn(api, "cookie")),
        ct \in {EmptyMap} \cup {(ContentTypeName :> t) : t \in ContentTypes},
        b \in BOOLEAN}

-----------------------------------------------------------------------------
(* Parameter.Validate applied to enumerated inputs *)

\* NewAPIRouter(engine, "/api", title, version, "D")
RouterInit(titles, versions) ==
    /\ definitions = <<>>
    /\ heap = <<>>
    /\ routes = <<>>
    /\ basePath = <<"/", "a", "p", "i">>
    /\ title \in titles
    /\ version \in versions
    /\ description = <<"D">>
    /\ securitySchemes = EmptyMap
    /\ globalSecurity = <<>>
    /\ swaggerDoc = Nil
    /\ generated = FALSE
    /\ ret = [op |-> "NewAPIRouter"]

HttpInit ==
    /\ request = NoRequest
    /\ response = NoResponse

ValidateIdle ==
    /\ vParam = Nil
    /\ vValue = Nil
    /\ vDone = FALSE
    /\ vResult = NoErr

SchemaIdle ==
    /\ sValue = Nil
    /\ sDone = FALSE
    /\ sSafe = Nil
    /\ sPlain = Nil

\* the goroutines serving /swagger.json, none of them started, and no
\* GenerateSwagger call under way
Readers == 1..MaxReaders
RaceIdle ==
    /\ hpc = [h \in Readers |-> "idle"]
    /\ hEtag = [h \in Readers |-> Nil]
    /\ hResp = [h \in Readers |-> Nil]
    /\ hRaced = [h \in Readers |-> FALSE]
    /\ gpc = "idle"
    /\ gData = Nil
    /\ gMade = {}

ValidateInit(params, values) ==
    /\ vParam \in params
    /\ vValue \in values
    /\ vDone = FALSE
    /\ vResult = NoErr

\* err := p.Validate(value)
ValidateCall ==
    /\ ~vDone
    /\ vDone' = TRUE
    /\ vResult' = Validate(vParam, vValue)
    /\ UNCHANGED <<vParam, vValue>>
    /\ UNCHANGED <<routerVars, httpVars, schemaVars, raceVars>>

TitleT == <<"T">>
Version1 == <<"1">>

\* a parameter with a rule list, a few values
InitValidate ==
    /\ ValidateInit({Param(NameId, "query", req, rules) : req \in BOOLEAN, rules \in RuleLists},
                    ListValues)
    /\ RouterInit({TitleT}, {Version1}) /\ HttpInit /\ SchemaIdle /\ RaceIdle

\* a parameter with one rule, every value
InitRule ==
    /\ ValidateInit({Param(NameId, "query", req, <<r>>) : req \in BOOLEAN, r \in SingleRules},
                    SingleValues)
    /\ RouterInit({TitleT}, {Version1}) /\ HttpInit /\ SchemaIdle /\ RaceIdle

NextValidate == ValidateCall

SpecValidate == InitValidate /\ [][NextValidate]_vars
SpecRule == InitRule /\ [][NextValidate]_vars

-----------------------------------------------------------------------------
(* The router: registration and document generation *)

Init == RouterInit({<<>>, TitleT}, {<<>>, Version1}) /\ HttpInit /\ ValidateIdle /\ SchemaIdle /\ RaceIdle

RegisterAny ==
    /\ Len(definitions) < MaxDefs
    /\ \E api \in RegDefs \cup {Nil} : Register(api)
    /\ UNCHANGED <<httpVars, valVars, schemaVars, raceVars>>

Generate ==
    /\ \E now \in Clock : GenerateSwagger(now)
    /\ UNCHANGED <<httpVars, valVars, schemaVars, raceVars>>

Next == RegisterAny \/ Generate

Spec == Init /\ [][Next]_vars

-----------------------------------------------------------------------------
(* The router serving requests *)

InitRequest == RouterInit({TitleT}, {Version1}) /\ HttpInit /\ ValidateIdle /\ SchemaIdle /\ RaceIdle

RegisterRoute ==
    /\ Len(definitions) < MaxRoutes
    /\ \E api \in ReqDefs : Register(api)
    /\ UNCHANGED <<httpVars, valVars, schemaVars, raceVars>>

ServeRequest ==
    /\ \E r \in 1..Len(routes) : \E req \in Requests(heap[routes[r].api]) : Serve(r, req)
    /\ UNCHANGED <<routerVars, valVars, schemaVars, raceVars>>

CompleteRequest ==
    /\ Complete
    /\ UNCHANGED <<routerVars, valVars, schemaVars, raceVars>>

NextRequest == RegisterRoute \/ ServeRequest \/ CompleteRequest

SpecRequest == InitRequest /\ [][NextRequest]_vars

-----------------------------------------------------------------------------
(* The router: document generation and its serving *)

TimeType == [kind |-> "struct", name |-> "time.Time", timeMethod |-> Nil, fields |-> <<>>]
\* type Event struct { At time.Time `json:"at"` }
Event ==
    [kind |-> "struct", name |-> "Event", timeMethod |-> Nil,
     fields |-> <<Field("At", TimeType, <<"a", "t">>, <<>>)>>]
CreateUser == <<"c", "r", "e", "a", "t", "e", "U", "s", "e", "r">>
\* WithSecurity("auth", nil)
AuthRequirement == ("auth" :> <<>>)

\* NewAPIDefinition("GET", "/u", "summary").WithHandler(h)
PlainDef == Def(MethodGet, PathU, StdHandler, Nil, Nil, <<>>)
\* ... .WithSecurity("auth", nil)
SecuredDef == [PlainDef EXCEPT !.Method = MethodDelete, !.Security = <<AuthRequirement>>]
\* a definition with a request type, a response type, an operation id and a
\* security requirement
FullDef ==
    [Def(MethodPost, PathI, StdHandler, Nil, ValueOf(Event), <<>>) EXCEPT
        !.OperationID = CreateUser, !.Response = UserValue, !.Security = <<AuthRequirement>>]
\* a definition whose request type is no struct
BadDef == Def(MethodPut, PathU, StdHandler, Nil, StringValue, <<>>)
DocDefs == {PlainDef, SecuredDef, FullDef, BadDef}

InitDocument == RouterInit({<<>>, TitleT}, {Version1}) /\ HttpInit /\ ValidateIdle /\ SchemaIdle /\ RaceIdle

RegisterDoc ==
    /\ Len(definitions) < MaxDefs
    /\ \E api \in DocDefs : Register(api)
    /\ UNCHANGED <<httpVars, valVars, schemaVars, raceVars>>

SetInfoDoc ==
    /\ \E info \in {<<TitleT, Version1, <<"D">> >>, << <<>>, Version1, <<"D">> >>,
                     <<TitleT, <<>>, <<"D">> >>, <<TitleT, Version1, <<>> >>} :
          SetInfo(info[1], info[2], info[3])
    /\ UNCHANGED <<httpVars, valVars, schemaVars, raceVars>>

ServeSwagger ==
    /\ SwaggerHandler
    /\ UNCHANGED <<httpVars, valVars, schemaVars, raceVars>>

NextDocument == RegisterDoc \/ SetInfoDoc \/ Generate \/ ServeSwagger

SpecDocument == InitDocument /\ [][NextDocument]_vars

-----------------------------------------------------------------------------
(* The router: a generated document and later changes of the router *)

TitleU == <<"U">>
PathV2 == <<"/", "v", "2">>
TagG == <<"G", "r", "p">>
TagOwn == <<"o", "w", "n">>

InitFrame == RouterInit({TitleT}, {Version1}) /\ HttpInit /\ ValidateIdle /\ SchemaIdle /\ RaceIdle

RegisterFrame ==
    /\ Len(definitions) < MaxDefs
    /\ Register(PlainDef)
    /\ UNCHANGED <<httpVars, valVars, schemaVars, raceVars>>

RegisterGroupFrame ==
    /\ Len(definitions) < MaxDefs
    /\ RegisterGroup(TagG, <<SecuredDef>>, FALSE)
    /\ UNCHANGED <<httpVars, valVars, schemaVars, raceVars>>

SetInfoFrame ==
    /\ SetInfo(TitleU, Version1, <<"D">>)
    /\ UNCHANGED <<httpVars, valVars, schemaVars, raceVars>>

SetBasePathFrame ==
    /\ SetBasePath(PathV2)
    /\ UNCHANGED <<httpVars, valVars, schemaVars, raceVars>>

AddSchemeFrame ==
    /\ \/ AddBasicAuth("auth", "d")
       \/ AddAPIKey("auth", "d", "header")
    /\ UNCHANGED <<httpVars, valVars, schemaVars, raceVars>>

SetGlobalSecurityFrame ==
    /\ SetGlobalSecurity(<<AuthRequirement>>)
    /\ UNCHANGED <<httpVars, valVars, schemaVars, raceVars>>

NextFrame ==
    \/ RegisterFrame \/ RegisterGroupFrame \/ SetInfoFrame \/ SetBasePathFrame
    \/ AddSchemeFrame \/ SetGlobalSecurityFrame \/ Generate \/ ServeSwagger

SpecFrame == InitFrame /\ [][NextFrame]_vars

-----------------------------------------------------------------------------
(* The router: RegisterGroup *)

\* a definition with tags of its own and one Register rejects
TaggedDef == [Def(MethodPost, PathI, StdHandler, Nil, Nil, <<>>) EXCEPT !.Tags = <<TagOwn>>]
NoPathDef == Def(MethodGet, <<>>, StdHandler, Nil, Nil, <<>>)
GroupDefs == {PlainDef, TaggedDef, NoPathDef}
Groups == UNION {[1..k -> GroupDefs] : k \in 0..MaxGroup}

InitGroup == RouterInit({TitleT}, {Version1}) /\ HttpInit /\ ValidateIdle /\ SchemaIdle /\ RaceIdle

RegisterGroupAny ==
    /\ Len(definitions) < MaxDefs
    /\ \E tag \in {<<>>, TagG}, apis \in Groups, shared \in BOOLEAN :
          RegisterGroup(tag, apis, shared)
    /\ UNCHANGED <<httpVars, valVars, schemaVars, raceVars>>

RegisterOne ==
    /\ Len(definitions) < MaxDefs
    /\ \E api \in GroupDefs : Register(api)
    /\ UNCHANGED <<httpVars, valVars, schemaVars, raceVars>>

NextGroup == RegisterGroupAny \/ RegisterOne

SpecGroup == InitGroup /\ [][NextGroup]_vars

-----------------------------------------------------------------------------
(* The router: /swagger.json served while GenerateSwagger is called again *)

InitRace ==
    /\ RouterInit({TitleT}, {Version1}) /\ HttpInit /\ ValidateIdle /\ SchemaIdle /\ RaceIdle

\* a definition registered between two GenerateSwagger calls
RegisterRace ==
    /\ gpc = "idle"
    /\ Len(definitions) < MaxDefs
    /\ \E api \in {PlainDef, SecuredDef} : Register(api)
    /\ UNCHANGED <<httpVars, valVars, schemaVars, raceVars>>

GenerateRace ==
    /\ \/ \E now \in Clock : GenerateBuild(now)
       \/ GenerateStoreDoc
       \/ GenerateDocStored
       \/ GenerateStoreFlag
    /\ UNCHANGED <<httpVars, valVars, schemaVars>>

HandleRace ==
    /\ \E h \in Readers : HandlerCheck(h) \/ HandlerEtag(h) \/ HandlerData(h) \/ HandlerReturn(h)
    /\ UNCHANGED <<httpVars, valVars, schemaVars>>

NextRace == RegisterRace \/ GenerateRace \/ HandleRace

SpecRace == InitRace /\ [][NextRace]_vars

-----------------------------------------------------------------------------
(* The router: a definition changed through the builder after Register *)

OtherHandler == [k |-> "http.HandlerFunc", status |-> 202]
BuiltDefs == {Def(m, PathU, StdHandler, Nil, Nil, <<>>) : m \in {MethodGet, MethodPost}}

InitBuilder ==
    /\ RouterInit({TitleT}, {Version1}) /\ HttpInit /\ ValidateIdle /\ SchemaIdle /\ RaceIdle

RegisterBuilt ==
    /\ Len(definitions) < MaxRoutes
    /\ \E api \in BuiltDefs : Register(api)
    /\ UNCHANGED <<httpVars, valVars, schemaVars, raceVars>>

ChangeBuilt ==
    /\ \E c \in DOMAIN heap :
          \/ Len(heap[c].Params) < MaxParams /\ WithParam(c, Param(NameId, "query", TRUE, <<>>))
          \/ WithHandler(c, OtherHandler)
          \/ WithRequest(c, UserValue)
    /\ UNCHANGED <<httpVars, valVars, schemaVars, raceVars>>

ServeBuilt ==
    /\ \E r \in 1..Len(routes) : \E req \in Requests(heap[routes[r].api]) : Serve(r, req)
    /\ UNCHANGED <<routerVars, valVars, schemaVars, raceVars>>

NextBuilder == RegisterBuilt \/ ChangeBuilt \/ ServeBuilt \/ CompleteRequest \/ Generate

SpecBuilder == InitBuilder /\ [][NextBuilder]_vars

-----------------------------------------------------------------------------
(* The router: requests to the routes of a group *)

\* three definitions with routes, parameters, request types and handlers of
\* their own
GroupA == Def(MethodGet, PathU, StdHandler, Nil, Nil, <<Param(NameId, "query", TRUE, <<>>)>>)
GroupB == Def(MethodPost, PathI, OtherHandler, Nil, UserValue, <<>>)
GroupC == Def(MethodDelete, PathU, Nil, GinHandler, Nil, <<>>)
\* the lists of distinct definitions handed to RegisterGroup
ServedGroups ==
    {apis \in UNION {[1..k -> {GroupA, GroupB, GroupC}] : k \in 1..MaxGroup} :
        \A i, j \in 1..Len(apis) : apis[i] = apis[j] => i = j}

InitGroupServe ==
    /\ RouterInit({TitleT}, {Version1}) /\ HttpInit /\ ValidateIdle /\ SchemaIdle /\ RaceIdle

RegisterGroupServed ==
    /\ definitions = <<>>
    /\ \E apis \in ServedGroups, shared \in BOOLEAN : RegisterGroup(TagG, apis, shared)
    /\ UNCHANGED <<httpVars, valVars, schemaVars, raceVars>>

ServeGroup ==
    /\ \E r \in 1..Len(routes) :
          \E req \in Requests(definitions[r]) \cup Requests(heap[routes[r].api]) : Serve(r, req)
    /\ UNCHANGED <<routerVars, valVars, schemaVars, raceVars>>

NextGroupServe == RegisterGroupServed \/ ServeGroup \/ CompleteRequest

SpecGroupServe == InitGroupServe /\ [][NextGroupServe]_vars

-----------------------------------------------------------------------------
(* The router: every operation of an APIRouter in any order *)

InitRouter == RouterInit({TitleT}, {Version1}) /\ HttpInit /\ ValidateIdle /\ SchemaIdle /\ RaceIdle

\* a definition Register accepts and one it rejects
RegisterRouter ==
    /\ Len(definitions) < MaxDefs
    /\ \E api \in {PlainDef, NoPathDef} : Register(api)
    /\ UNCHANGED <<httpVars, valVars, schemaVars, raceVars>>

\* a group registered whole and one that stops at its second element
RegisterGroupRouter ==
    /\ Len(definitions) < MaxDefs
    /\ \E apis \in {<<SecuredDef>>, <<TaggedDef, NoPathDef>>} : RegisterGroup(TagG, apis, FALSE)
    /\ UNCHANGED <<httpVars, valVars, schemaVars, raceVars>>

\* SetInfo with a title and without one
SetInfoRouter ==
    /\ \E t \in {TitleT, <<>>} : SetInfo(t, Version1, <<"D">>)
    /\ UNCHANGED <<httpVars, valVars, schemaVars, raceVars>>

NextRouter ==
    \/ RegisterRouter \/ RegisterGroupRouter \/ SetInfoRouter \/ SetBasePathFrame
    \/ SetGlobalSecurityFrame \/ Generate \/ ServeSwagger

SpecRouter == InitRouter /\ [][NextRouter]_vars

-----------------------------------------------------------------------------
(* The router: operation ids synthesized for enumerated paths and tags *)

PathAlphabet == {"/", "a", "{", "}", "_"}
IdPaths == UNION {[1..n -> PathAlphabet] : n \in 1..MaxPath}
\* no tag, WithTags("Ab", "b"), WithTags("")
IdTags == {<<>>, << <<"A", "b">>, <<"b">> >>, << <<>> >>}

InitIds ==
    /\ RouterInit({TitleT}, {Version1}) /\ HttpInit /\ ValidateIdle /\ SchemaIdle /\ RaceIdle

RegisterId ==
    /\ definitions = <<>>
    /\ \E path \in IdPaths, tags \in IdTags :
          Register([Def(MethodGet, path, StdHandler, Nil, Nil, <<>>) EXCEPT !.Tags = tags])
    /\ UNCHANGED <<httpVars, valVars, schemaVars, raceVars>>

NextIds == RegisterId \/ Generate

SpecIds == InitIds /\ [][NextIds]_vars

-----------------------------------------------------------------------------
(* Schema synthesis applied to enumerated inputs *)

\* the json tags of field i: none, "-", a name, a name with omitempty,
\* omitempty without a name
FieldNames == <<"a", "b", "c">>
JsonTags(i) ==
    {<<>>, TagDash, <<FieldNames[i]>>, <<FieldNames[i], ",">> \o TagOmitempty,
     <<",">> \o TagOmitempty}
\* the validate tags: none, required, required after another rule
ValidateTags == {<<>>, TagRequired, <<"e", ",">> \o TagRequired}
FieldsAt(i) ==
    {Field(FieldNames[i], [kind |-> IF i = 1 THEN "string" ELSE "int"], json, validate) :
        json \in JsonTags(i), validate \in ValidateTags}
FieldLists(k) == {fs \in [1..k -> UNION {FieldsAt(i) : i \in 1..k}] : \A i \in 1..k : fs[i] \in FieldsAt(i)}
StructTypes ==
    {[kind |-> "struct", name |-> "T", timeMethod |-> Nil, fields |-> fs] :
        fs \in UNION {FieldLists(k) : k \in 0..MaxFields}}
StringType == [kind |-> "string"]
PointerTo(t) == ValueOf([kind |-> "ptr", elem |-> t])
SchemaInputs ==
    {Nil, StringValue, PointerTo(StringType), NilPointerTo(StringType),
     PointerTo(CreateUserRequest), NilPointerTo(CreateUserRequest), NilPointerTo(Event)}
      \cup {ValueOf(t) : t \in StructTypes}

InitSchema ==
    /\ RouterInit({TitleT}, {Version1}) /\ HttpInit /\ ValidateIdle
    /\ RaceIdle
    /\ sValue \in SchemaInputs
    /\ sDone = FALSE
    /\ sSafe = Nil
    /\ sPlain = Nil

\* schema, err := SafeSchemaFromStruct(v); schema, err = SchemaFromStruct(v)
SchemaCall ==
    /\ ~sDone
    /\ sDone' = TRUE
    /\ \E now \in Clock :
          /\ sSafe' = SafeSchemaFromStruct(sValue, now)
          /\ sPlain' = SchemaFromStruct(sValue, now)
    /\ UNCHANGED sValue
    /\ UNCHANGED <<routerVars, httpVars, valVars, raceVars>>

NextSchema == SchemaCall

SpecSchema == InitSchema /\ [][NextSchema]_vars

-----------------------------------------------------------------------------
(* Schema synthesis on date/time fields and on types that contain themselves *)

FieldTagged(name, type, json, doc, example, format) ==
    [Name |-> name, Type |-> type,
     Tag |-> [json |-> json, validate |-> <<>>, doc |-> doc, example |-> example,
              format |-> format]]
\* time.Time{}.UTC().Format(time.RFC3339)
ZeroTime == "0001-01-01T00:00:00Z"
\* type Stamp struct { sec int64 }; func (s Stamp) Time() time.Time
StampType ==
    [kind |-> "struct", name |-> "Stamp", timeMethod |-> [example |-> ZeroTime],
     fields |-> <<Field("sec", [kind |-> "int64"], <<>>, <<>>)>>]
\* type Epoch int64; func (e Epoch) Time() time.Time
EpochType == [kind |-> "int64", name |-> "Epoch", timeMethod |-> [example |-> ZeroTime]]
TimeTypes == {TimeType, [kind |-> "ptr", elem |-> TimeType], StampType, EpochType}
\* type T struct { At <type> `json:"at" doc:".." example:".." format:".."` }
TimeStructs ==
    {[kind |-> "struct", name |-> "T", timeMethod |-> Nil,
      fields |-> <<FieldTagged("At", type, <<"a", "t">>, doc, example, format)>>] :
        type \in TimeTypes, doc \in {"", "when"},
        example \in {"", "tomorrow", "2026-01-01"}, format \in {"", "date", "date-time"}}

\* the struct type Node, met again inside itself
Again == [kind |-> "again", name |-> "Node"]
\* the ways a field of Node may refer to Node: *Node, []Node, [2]*Node,
\* map[string]Node, and a struct Inner with a field of type *Node
InnerType ==
    [kind |-> "struct", name |-> "Inner", timeMethod |-> Nil,
     fields |-> <<Field("Up", [kind |-> "ptr", elem |-> Again], <<"u", "p">>, <<>>)>>]
SelfTypes ==
    {[kind |-> "ptr", elem |-> Again], [kind |-> "slice", elem |-> Again],
     [kind |-> "array", elem |-> [kind |-> "ptr", elem |-> Again]],
     [kind |-> "map", elem |-> Again], InnerType}
\* type Node struct { V string `json:"v"`; Next <type> `json:".."` }
SelfStructs ==
    {[kind |-> "struct", name |-> "Node", timeMethod |-> Nil,
      fields |-> <<Field("V", StringType, <<"v">>, validate),
                   Field("Next", type, json, <<>>)>>] :
        type \in SelfTypes, validate \in {<<>>, TagRequired},
        json \in {<<>>, TagDash, <<"n">>, <<"n", ",">> \o TagOmitempty}}
TypeInputs ==
    {ValueOf(t) : t \in TimeStructs \cup SelfStructs}
      \cup {PointerTo(t) : t \in SelfStructs}

InitTypes ==
    /\ RouterInit({TitleT}, {Version1}) /\ HttpInit /\ ValidateIdle
    /\ RaceIdle
    /\ sValue \in TypeInputs
    /\ sDone = FALSE
    /\ sSafe = Nil
    /\ sPlain = Nil

NextTypes == SchemaCall

SpecTypes == InitTypes /\ [][NextTypes]_vars

-----------------------------------------------------------------------------
(* Properties of Parameter.Validate *)

vText == Stringify(vValue)
vRules == vParam.Validations
vEvaluated == vDone /\ vValue # Nil /\ vText # <<>>
vAbsentOrEmpty == vValue = Nil \/ vValue = StrV(<<>>)

\* C4: a required parameter with an absent (nil) or empty value is an error,
\* an optional parameter with an absent or empty value is no error, whatever
\* rules the parameter declares.
C4_RequiredAndOptional ==
    vDone /\ vAbsentOrEmpty =>
        IF vParam.Required THEN vResult = Err(RequiredText(vParam.Name))
        ELSE vResult = NoErr

\* an optional parameter with an empty value and a rule that rejects the
\* empty text has been validated
C4_Witness ==
    /\ vDone /\ ~vParam.Required /\ vValue = StrV(<<>>)
    /\ \E i \in 1..Len(vRules) : RuleFails(vRules[i], <<>>)
    /\ vResult = NoErr

FailingRules == {i \in 1..Len(vRules) : RuleFails(vRules[i], vText)}
FirstFailing == CHOOSE i \in FailingRules : \A j \in FailingRules : i <= j

\* C5: when rules are evaluated, the result is the error of the first failing
\* rule in declaration order and its text is that rule's Message, character
\* for character; with no failing rule there is no error.
C5_FirstMessageVerbatim ==
    vEvaluated =>
        IF FailingRules = {} THEN vResult = NoErr
        ELSE vResult = Err(vRules[FirstFailing].Message)

vRule == vRules[1]
IsFloatBound == vRule.Type \in {"min", "max"} /\ vRule.Value.k = "float64"
IsIntBound == vRule.Type \in {"min", "max"} /\ vRule.Value.k = "int"
Min18 == Rule("min", Float18, MsgMin)

\* C6: a min (max) rule with a float threshold t fails exactly when the value
\* parses as a number below (above) t; a value that is no number passes.
\* min 18.0 passes "20" and "abc" and fails "15".
C6_FloatThreshold ==
    /\ vEvaluated /\ IsFloatBound =>
        LET r == ParseFloat(vText)
            beyond == IF vRule.Type = "min" THEN NumLess(r, vRule.Value.x10)
                      ELSE NumGreater(r, vRule.Value.x10)
        IN  /\ vResult.err <=> (r.ok /\ beyond)
            /\ ~r.ok => vResult = NoErr
    /\ vEvaluated /\ vRule = Min18 /\ vText \in {V20, Vabc} => vResult = NoErr
    /\ vEvaluated /\ vRule = Min18 /\ vText = V15 => vResult = Err(MsgMin)

\* min 18.0 has passed the value "abc"
C6_Witness ==
    vEvaluated /\ vRule = Min18 /\ vValue = StrV(Vabc) /\ vResult = NoErr

IsEnum == vRule.Type = "enum"
EnumTexts ==
    IF vRule.Value.k = "[]string"
    THEN {vRule.Value.elems[i] : i \in 1..Len(vRule.Value.elems)}
    ELSE {Stringify(vRule.Value.elems[i]) : i \in 1..Len(vRule.Value.elems)}

\* C8: an enum rule fails for every present, non-empty value that is not the
\* text of a member of the rule's set and passes for every value that is,
\* whatever collection type the set was supplied as.
C8_EnumAnyCollection ==
    vEvaluated /\ IsEnum => (vResult.err <=> vText \notin EnumTexts)

-----------------------------------------------------------------------------
(* Properties of Register *)

Registered == {definitions[i] : i \in 1..Len(definitions)}
BothNil(api) == api.Handler = Nil /\ api.NativeHandler = Nil
BothSet(api) == api.Handler # Nil /\ api.NativeHandler # Nil
MethodSupported(api) == \E m \in SupportedMethods : ToUpper(api.Method) = ToUpper(m)
Defective(api) ==
    api = Nil \/ BothNil(api) \/ api.Path = <<>> \/ ~MethodSupported(api)
RegisterReturned == ret.op = "Register"

\* C1: Register returns an error, appends nothing and registers no route for
\* a nil definition, a definition without any handler, an empty path or a
\* method that is none of GET, POST, PUT, DELETE, PATCH in any letter case;
\* a definition with none of these defects and one handler is accepted and
\* appended exactly once.
C1_RegisterValidates ==
    /\ [](RegisterReturned =>
            /\ Defective(ret.arg) => ret.err # "nil"
            /\ ~Defective(ret.arg) /\ ~BothSet(ret.arg) => ret.err = "nil")
    /\ [][ret'.op = "Register" =>
            IF ret'.err # "nil"
            THEN definitions' = definitions /\ routes' = routes /\ heap' = heap
            ELSE /\ definitions' = Append(definitions, ret'.arg)
                 /\ Len(routes') = Len(routes) + 1
                 /\ routes'[Len(routes')].method \in SupportedMethods
                 /\ routes'[Len(routes')].fullPath = basePath \o ret'.arg.Path]_vars

\* a definition with an empty path has been rejected by a router that holds
\* an accepted one
C1_Witness ==
    /\ RegisterReturned /\ ret.err = "path cannot be empty"
    /\ Len(definitions) = 1 /\ Len(routes) = 1

\* C2 as stated: Register rejects a definition that has both Handler and
\* NativeHandler set, so every registered definition has exactly one handler.
C2_ExactlyOneHandler ==
    /\ RegisterReturned /\ ret.arg # Nil /\ BothSet(ret.arg) => ret.err # "nil"
    /\ \A api \in Registered : ~BothNil(api) /\ ~BothSet(api)

\* C2 as amended: Register rejects a definition for its handlers only when
\* both are nil; a definition with both set and no other defect is accepted,
\* so every registered definition has at least one handler.
C2_AtLeastOneHandler ==
    /\ RegisterReturned /\ ret.arg # Nil /\ BothSet(ret.arg) /\ ~Defective(ret.arg)
         => ret.err = "nil"
    /\ RegisterReturned /\ ret.err = "handler cannot be nil" => BothNil(ret.arg)
    /\ \A api \in Registered : ~BothNil(api)

\* a definition with both handlers set has been accepted
C2_Witness ==
    RegisterReturned /\ ret.err = "nil" /\ BothSet(ret.arg) /\ ret.arg \in Registered

Slot(pathItem, method) ==
    CASE method = MethodGet -> pathItem.Get
      [] method = MethodPost -> pathItem.Post
      [] method = MethodPut -> pathItem.Put
      [] method = MethodDelete -> pathItem.Delete
      [] method = MethodPatch -> pathItem.Patch

\* C3: after a successful GenerateSwagger, every registered definition,
\* whatever the letter case of its Method, has a non-null operation under
\* paths[Path] in the slot of its method.
C3_OperationInMethodSlot ==
    ret.op = "GenerateSwagger" /\ ret.err = "nil" =>
        \A api \in Registered :
            /\ api.Path \in DOMAIN ret.doc.Paths
            /\ Slot(ret.doc.Paths[api.Path], ToUpper(api.Method)) # Nil

-----------------------------------------------------------------------------
(* Properties of the route handler *)

InFlight == request # NoRequest
rApi == heap[routes[request.route].api]
rMethod == routes[request.route].method
rReq == request.req
rParams == {rApi.Params[i] : i \in 1..Len(rApi.Params)}
Rejected(status) == response.status = status /\ response.called = "none"

MissingOrEmpty(param) ==
    param.Name \notin DOMAIN rReq[param.In] \/ rReq[param.In][param.Name] = <<>>

\* C9: a request in which a required parameter, in any of the four
\* locations, is missing or empty is answered 400 and reaches no handler.
C9_RequiredEnforced ==
    InFlight =>
        \A param \in rParams :
            param.Required /\ MissingOrEmpty(param) => Rejected(StatusBadRequest)

rContentType == Lookup(rReq, "header", ContentTypeName)
BadContentType == rContentType # <<>> /\ ~HasPrefix(rContentType, ApplicationJson)
BodyRoute ==
    rApi.Request # Nil /\ ToUpper(rApi.Method) \in {MethodPost, MethodPut, MethodPatch}
ParamsPass == CheckAllParams(rApi.Params, rReq) = Pass

\* the request in flight with another Content-Type (or none) and body
OtherBodies ==
    {[rReq EXCEPT !.bodyOK = b,
                  !.header = ct @@ [n \in (DOMAIN rReq.header) \ {ContentTypeName} |-> rReq.header[n]]] :
        b \in BOOLEAN, ct \in {EmptyMap} \cup {(ContentTypeName :> t) : t \in ContentTypes}}
BodyIgnored == \A req \in OtherBodies : ServeRoute(rApi, rMethod, req) = response

\* C10 as stated: on a route with a request type and method POST, PUT or
\* PATCH in any letter case, a non-empty Content-Type that does not start
\* with application/json is answered 415 and a body that is no JSON is
\* answered 400, the handler not invoked; on other routes the body and the
\* Content-Type are never checked.
C10_BodyChecks ==
    InFlight =>
        IF BodyRoute
        THEN /\ BadContentType => Rejected(StatusUnsupportedMediaType)
             /\ ~BadContentType /\ ~rReq.bodyOK => Rejected(StatusBadRequest)
        ELSE BodyIgnored

\* C10 as amended: the same for a request that has passed the parameter
\* checks, which come first (a request that fails them is answered 400
\* whatever its Content-Type); the Content-Type is checked before the body.
C10_BodyChecksAfterParams ==
    InFlight =>
        IF BodyRoute
        THEN /\ ParamsPass /\ BadContentType => Rejected(StatusUnsupportedMediaType)
             /\ ParamsPass /\ ~BadContentType /\ ~rReq.bodyOK => Rejected(StatusBadRequest)
             /\ ~ParamsPass => Rejected(StatusBadRequest)
        ELSE BodyIgnored

\* a route registered as "Post" with a request type has answered 415 to a
\* text/plain request that passed the parameter checks
C10_Witness ==
    /\ InFlight /\ BodyRoute /\ rApi.Method = TextPost /\ ParamsPass
    /\ rContentType = TextPlain /\ Rejected(StatusUnsupportedMediaType)

-----------------------------------------------------------------------------
(* Properties of GenerateSwagger and SwaggerHandler *)

GenerateReturned == ret.op = "GenerateSwagger"
GenerateSucceeded == GenerateReturned /\ ret.err = "nil"
\* a request or response type a schema can be synthesized for: none, a struct
\* or a pointer to a struct
Synthesizable(v) ==
    v = Nil \/ v.type.kind = "struct" \/ (v.type.kind = "ptr" /\ v.type.elem.kind = "struct")
AllSynthesizable ==
    \A api \in Registered : Synthesizable(api.Request) /\ Synthesizable(api.Response)

\* C11: GenerateSwagger returns an error when the title is empty, when the
\* version is empty or when no definition is registered, and then leaves the
\* cached snapshot and the generated flag as they were; with a title, a
\* version and at least one definition, all with synthesizable schemas, it
\* succeeds, stores a snapshot and sets generated.
C11_GenerateValidates ==
    /\ [](GenerateReturned =>
            /\ title = <<>> \/ version = <<>> \/ Len(definitions) = 0 => ret.err # "nil"
            /\ title # <<>> /\ version # <<>> /\ Len(definitions) > 0 /\ AllSynthesizable
                 => ret.err = "nil" /\ generated /\ swaggerDoc # Nil)
    /\ [][ret'.op = "GenerateSwagger" =>
            IF ret'.err # "nil"
            THEN swaggerDoc' = swaggerDoc /\ generated' = generated
            ELSE generated' /\ swaggerDoc' = MarshalIndent(ret'.doc)]_vars

\* a call has failed on an empty title and the snapshot of an earlier call is
\* still there
C11_Witness ==
    /\ GenerateReturned /\ ret.err = "API title is required"
    /\ generated /\ swaggerDoc # Nil /\ Len(definitions) > 0

\* C12: in the state a successful GenerateSwagger leaves, a call made at any
\* other time would store the same bytes.
C12_SnapshotDeterministic ==
    GenerateSucceeded =>
        \A now \in Clock : MarshalIndent(GenerateResult(now).doc) = swaggerDoc

\* C13: when the request or response schema of a registered definition
\* cannot be synthesized, GenerateSwagger (title and version given) returns
\* the build error and no document, and leaves the snapshot and the
\* generated flag as they were.
C13_SchemaFailureAborts ==
    /\ [](GenerateReturned /\ title # <<>> /\ version # <<>> /\ ~AllSynthesizable
            => ret.err = "failed to build OpenAPI document" /\ ret.doc = Nil)
    /\ [][ret'.op = "GenerateSwagger" /\ ret'.err = "failed to build OpenAPI document"
            => swaggerDoc' = swaggerDoc /\ generated' = generated]_vars

\* Register accepted a definition whose request type is a string, the
\* generation failed on it and an earlier snapshot is still there
C13_Witness ==
    /\ GenerateReturned /\ ret.err = "failed to build OpenAPI document"
    /\ BadDef \in Registered /\ generated /\ swaggerDoc # Nil

\* the definitions that own an operation of the document: the last one
\* registered for its path and method
Owners ==
    {i \in 1..Len(definitions) :
        /\ definitions[i].Method \in SupportedMethods
        /\ \A j \in (i + 1)..Len(definitions) :
              definitions[j].Path # definitions[i].Path
                \/ definitions[j].Method # definitions[i].Method}
OperationOf(i) == Slot(ret.doc.Paths[definitions[i].Path], definitions[i].Method)
HasResponse(i, code) == code \in DOMAIN OperationOf(i).Responses

\* C14: in a generated document every operation has responses 400 and 500,
\* has 200 exactly when its definition has a response type, and has 401 and
\* 403 exactly when its definition declares a security requirement.
C14_DefaultResponses ==
    GenerateSucceeded =>
        \A i \in Owners :
            /\ HasResponse(i, "400") /\ HasResponse(i, "500")
            /\ HasResponse(i, "200") <=> definitions[i].Response # Nil
            /\ HasResponse(i, "401") <=> Len(definitions[i].Security) > 0
            /\ HasResponse(i, "403") <=> Len(definitions[i].Security) > 0

\* C15: an operation registered with an operation id has that id in the
\* generated document; an id is synthesized only for the others.
C15_ExplicitOperationID ==
    GenerateSucceeded =>
        \A i \in Owners :
            IF definitions[i].OperationID # <<>>
            THEN OperationOf(i).OperationID = definitions[i].OperationID
            ELSE OperationOf(i).OperationID
                   = generateOperationID(definitions[i].Path, OperationOf(i))

HandlerReturned == ret.op = "SwaggerHandler"

\* C16: SwaggerHandler answers 500 with an error body as long as no
\* GenerateSwagger has succeeded, and afterwards 200, application/json;
\* charset=utf-8, with the bytes the latest successful GenerateSwagger stored:
\* the flag and the snapshot change only in a successful GenerateSwagger,
\* which stores its document.
C16_HandlerServesSnapshot ==
    /\ [](/\ generated <=> swaggerDoc # Nil
          /\ HandlerReturned =>
                IF ~generated
                THEN /\ ret.response.status = 500
                     /\ "error" \in DOMAIN ret.response.body
                ELSE /\ ret.response.status = 200
                     /\ ret.response.contentType = "application/json; charset=utf-8"
                     /\ ret.response.body = swaggerDoc)
    /\ [][generated' # generated \/ swaggerDoc' # swaggerDoc
            => /\ ret'.op = "GenerateSwagger" /\ ret'.err = "nil"
               /\ generated' /\ swaggerDoc' = MarshalIndent(ret'.doc)]_vars
    /\ [][ret'.op = "GenerateSwagger" /\ ret'.err # "nil"
            => generated' = generated /\ swaggerDoc' = swaggerDoc]_vars

\* the handler has served a snapshot that the router's state no longer
\* generates
C16_Witness ==
    /\ HandlerReturned /\ ret.response.status = 200 /\ ret.response.body = swaggerDoc
    /\ title = <<>>

-----------------------------------------------------------------------------
(* Properties of the cached document and of RegisterGroup *)

Mutators ==
    {"Register", "RegisterGroup", "SetInfo", "SetBasePath", "AddBasicAuth", "AddBearerAuth",
     "AddAPIKey", "AddOAuth2", "AddOpenIDConnect", "SetGlobalSecurity"}
\* what the router would generate now differs from what it has cached
SnapshotStale ==
    \A now \in Clock :
        GenerateResult(now).err = "nil" /\ MarshalIndent(GenerateResult(now).doc) # swaggerDoc

\* C17: once a document is generated, Register, RegisterGroup, SetInfo,
\* SetBasePath, the security scheme additions and SetGlobalSecurity leave
\* the cached bytes and the flag as they are, and SwaggerHandler, which
\* changes nothing either, serves those bytes.
C17_SnapshotFrame ==
    /\ [][ret'.op \in Mutators \cup {"SwaggerHandler"}
            => swaggerDoc' = swaggerDoc /\ generated' = generated]_vars
    /\ [](generated /\ HandlerReturned
            => ret.response.status = 200 /\ ret.response.body = swaggerDoc)

\* after a generation the router got a second definition, another title and
\* base path, a security scheme and a global requirement, and the handler
\* has served the bytes of before
C17_Witness ==
    /\ generated /\ HandlerReturned /\ ret.response.body = swaggerDoc
    /\ Len(definitions) = 2 /\ title = TitleU /\ basePath = PathV2
    /\ securitySchemes # EmptyMap /\ globalSecurity # <<>>
    /\ swaggerDoc.info.Title = TitleT /\ "security" \notin DOMAIN swaggerDoc
    /\ SnapshotStale

GroupReturned == ret.op = "RegisterGroup"
\* the definition RegisterGroup is to register for a list element
WithGroupTag(tag, api) == IF api.Tags = <<>> THEN [api EXCEPT !.Tags = <<tag>>] ELSE api
\* the elements Register accepts before the first one it rejects
RECURSIVE AcceptedPrefix(_, _, _)
AcceptedPrefix(tag, apis, i) ==
    IF i > Len(apis) \/ Defective(WithGroupTag(tag, apis[i])) THEN <<>>
    ELSE <<WithGroupTag(tag, apis[i])>> \o AcceptedPrefix(tag, apis, i + 1)

\* C18: RegisterGroup(tag, defs) registers, in index order, every definition
\* before the first one Register rejects, each with the tags [tag] if it had
\* none and with its own tags otherwise; it returns an error naming the
\* index of the rejected definition, and registers none after it.
C18_GroupStopsAtFirstFailure ==
    [][ret'.op = "RegisterGroup" /\ ret'.tag # <<>> /\ ret'.apis # <<>> =>
          LET accepted == AcceptedPrefix(ret'.tag, ret'.apis, 1) IN
          /\ definitions' = definitions \o accepted
          /\ Len(routes') = Len(routes) + Len(accepted)
          /\ \A i \in 1..Len(accepted) :
                routes'[Len(routes) + i].fullPath = basePath \o accepted[i].Path
          /\ IF Len(accepted) = Len(ret'.apis)
             THEN ret'.err = "nil"
             ELSE ret'.err # "nil" /\ ret'.index = Len(accepted)]_vars

\* a group of three, the first without tags, the second rejected: the first
\* is registered with the group's tag, the third is not registered
C18_Witness ==
    /\ GroupReturned /\ Len(ret.apis) = 3 /\ ret.index = 1 /\ ret.err # "nil"
    /\ ret.apis[1].Tags = <<>> /\ ~Defective(ret.apis[3])
    /\ Len(definitions) = 1 /\ definitions[1].Tags = <<ret.tag>>

-----------------------------------------------------------------------------
(* Properties of SafeSchemaFromStruct and SchemaFromStruct *)

IsNilPointer(v) == v # Nil /\ "isNil" \in DOMAIN v
\* the type a value stands for: its own, or the one its pointer refers to
TypeUnder(v) == IF v.type.kind = "ptr" THEN v.type.elem ELSE v.type

\* the text of an annotation before its first comma
BeforeComma(s) ==
    LET commas == {i \in 1..Len(s) : s[i] = ","}
    IN  IF commas = {} THEN s
        ELSE SubSeq(s, 1, (CHOOSE i \in commas : \A j \in commas : i <= j) - 1)
\* item stands between two commas of s, or between a comma and the end
ItemAfterComma(s, item) ==
    \E i \in 1..Len(s) :
        /\ i + Len(item) <= Len(s)
        /\ SubSeq(s \o <<",">>, i, i + Len(item) + 1) = <<",">> \o item \o <<",">>
VisibleFields(t) == {i \in 1..Len(t.fields) : t.fields[i].Tag.json \notin {<<>>, <<"-">>}}
VisibleNames(t) == {BeforeComma(t.fields[i].Tag.json) : i \in VisibleFields(t)}
RequiredFields(t) ==
    {i \in VisibleFields(t) :
        \/ ItemAfterComma(<<",">> \o t.fields[i].Tag.validate, TagRequired)
        \/ ~ItemAfterComma(t.fields[i].Tag.json, TagOmitempty)}
RequiredNames(t) ==
    LET IsRequired(i) == i \in RequiredFields(t)
        order == SelectSeq([i \in 1..Len(t.fields) |-> i], IsRequired)
    IN  [k \in 1..Len(order) |-> BeforeComma(t.fields[order[k]].Tag.json)]
\* r is the schema of struct type t, returned with no error
IsSchemaOf(r, t) ==
    /\ ~r.err
    /\ r.schema.type = "object"
    /\ DOMAIN r.schema.properties = VisibleNames(t)
    /\ IF RequiredNames(t) = <<>> THEN "required" \notin DOMAIN r.schema
       ELSE "required" \in DOMAIN r.schema /\ r.schema.required = RequiredNames(t)

-----------------------------------------------------------------------------
(* Properties of the synthesis on date/time fields and self-containing types *)

\* the type is time.Time, a pointer to it, or has a method Time() time.Time
IsDateTime(t) ==
    \/ t.kind = "struct" /\ t.name = "time.Time"
    \/ t.kind = "ptr" /\ t.elem.kind = "struct" /\ t.elem.name = "time.Time"
    \/ "timeMethod" \in DOMAIN t /\ t.timeMethod # Nil
\* the timestamps of the model that are well-formed RFC3339 texts: what
\* time.Now() may read and the zero time; "tomorrow" and "2026-01-01" are not
WellFormedRFC3339 == Clock \cup {ZeroTime}
IsDateTimeProperty(p) ==
    /\ DOMAIN p \subseteq {"type", "format", "example", "description"}
    /\ {"type", "format", "example"} \subseteq DOMAIN p
    /\ p.type = "string"
    /\ p.format = "date-time"
    /\ p.example \in WellFormedRFC3339

\* C21: every field of a date/time type (time.Time, a pointer to it, a type
\* with a method Time() time.Time) becomes a property of type string, format
\* date-time, with a well-formed RFC3339 example, whatever doc, example and
\* format annotations it carries, and without the type's own fields.
C21_DateTimeFields ==
    (sDone /\ sValue # Nil /\ sValue.type.kind = "struct" /\ "err" \in DOMAIN sPlain)
        => /\ ~sPlain.err
           /\ \A i \in 1..Len(sValue.type.fields) :
                 LET field == sValue.type.fields[i] IN
                 (IsDateTime(field.Type) /\ field.Tag.json \notin {<<>>, <<"-">>})
                     => /\ BeforeComma(field.Tag.json) \in DOMAIN sPlain.schema.properties
                        /\ IsDateTimeProperty(
                               sPlain.schema.properties[BeforeComma(field.Tag.json)])

\* C22: SafeSchemaFromStruct returns a schema or an error for every input,
\* struct types that contain themselves through a pointer, slice or map
\* included; nothing ends the process.
C22_SafeSchemaTotal ==
    sDone => /\ "fatal" \notin DOMAIN sSafe
             /\ "err" \in DOMAIN sSafe
             /\ ~sSafe.err => "schema" \in DOMAIN sSafe

-----------------------------------------------------------------------------
(* Properties of SwaggerHandler running beside GenerateSwagger *)

\* C23: with SwaggerHandler requests running beside each other and beside a
\* repeated GenerateSwagger call, every response is the 500 answer or a
\* complete snapshot that one GenerateSwagger call produced, and the ETag of
\* a 200 response is the MD5 of the body sent in that response.
C23_ConcurrentReads ==
    \A h \in Readers :
        hResp[h] # Nil =>
            \/ hResp[h].status = StatusInternalServerError
            \/ /\ hResp[h].status = StatusOK
               /\ hResp[h].body \in gMade
               /\ hResp[h].etag = [md5 |-> hResp[h].body]

\* C23, amended: with SwaggerHandler requests running beside each other and
\* no GenerateSwagger call running while they are served, every response is
\* the 500 answer or the complete snapshot of the last successful
\* GenerateSwagger call, and the ETag of a 200 response is the MD5 of the
\* body sent in that response.
C23_ReadersOfFinishedSnapshot ==
    \A h \in Readers :
        (hResp[h] # Nil /\ ~hRaced[h]) =>
            \/ hResp[h].status = StatusInternalServerError
            \/ /\ hResp[h].status = StatusOK
               /\ hResp[h].body \in gMade
               /\ hResp[h].body = swaggerDoc
               /\ hResp[h].etag = [md5 |-> hResp[h].body]

\* two requests were served at the same time from the second snapshot, with
\* no GenerateSwagger call in between
C23_Witness ==
    /\ Cardinality(gMade) = 2
    /\ \A h \in {1, 2} :
          /\ hpc[h] = "done" /\ ~hRaced[h]
          /\ hResp[h].status = StatusOK
          /\ hResp[h].body = swaggerDoc
          /\ hResp[h].etag = [md5 |-> swaggerDoc]

-----------------------------------------------------------------------------
(* Properties of GenerateSwagger: the info block *)

\* C24 as stated: GenerateSwagger fails when the description is empty.
C24_DescriptionRequired ==
    (GenerateReturned /\ description = <<>>) => ret.err # "nil"

\* C24, amended: GenerateSwagger fails when the title or the version is
\* empty; an empty description does not make it fail: with a title, a
\* version and at least one definition, all with synthesizable schemas, it
\* succeeds and the document carries the empty description.
C24_TitleAndVersionRequired ==
    GenerateReturned =>
        /\ title = <<>> \/ version = <<>> => ret.err # "nil"
        /\ (description = <<>> /\ title # <<>> /\ version # <<>>
              /\ Len(definitions) > 0 /\ AllSynthesizable)
             => /\ ret.err = "nil"
                /\ ret.doc.Info.Description = <<>>
                /\ swaggerDoc.info.Description = <<>>

\* a call has succeeded with an empty description
C24_Witness ==
    /\ GenerateSucceeded /\ description = <<>> /\ title # <<>> /\ version # <<>>
    /\ generated /\ swaggerDoc.info.Description = <<>>

-----------------------------------------------------------------------------
(* Properties of definitions changed after Register *)

\* C25: after Register(def) has returned nil, changes made to def through the
\* builder change neither what the route applies to a request (parameters,
\* body check, handler) nor the operation a later GenerateSwagger publishes:
\* every request is answered as the registered definition says, and the
\* parameters the route enforces are the parameters published.
C25_RegisteredByValue ==
    /\ request # NoRequest =>
          response = ServeRoute(definitions[request.route], routes[request.route].method,
                                request.req)
    /\ \A r \in 1..Len(routes) : heap[routes[r].api].Params = definitions[r].Params

-----------------------------------------------------------------------------
(* Properties of the routes of a group *)

\* C26: after RegisterGroup(tag, defs) has succeeded, a request to the route
\* of defs[i] is checked against the parameters and request type of defs[i]
\* and handed to the handler of defs[i], for every i.
C26_GroupRoutesOwnDefinition ==
    (GroupReturned /\ ret.err = "nil" /\ request # NoRequest) =>
        response = ServeRoute(GroupTagged(ret.tag, ret.apis[request.route]),
                              ToUpper(ret.apis[request.route].Method), request.req)

-----------------------------------------------------------------------------
(* Properties of the handler dispatch *)

\* C27: a request that passes every parameter and body check has exactly one
\* handler called, once: the native handler when the definition has one,
\* whatever value was stored as NativeHandler, else the standard handler; a
\* rejected request has none called.
C27_OneHandlerCalled ==
    request # NoRequest =>
        LET api == heap[routes[request.route].api] IN
        IF "error" \in DOMAIN response
        THEN response.called = "none"
        ELSE response.called = IF api.NativeHandler # Nil THEN "native" ELSE "standard"

-----------------------------------------------------------------------------
(* Properties of the operation ids *)

\* C28: in a generated document no two operations have the same
\* operationId, two operations on one path with different methods and the
\* same first tag included.
C28_OperationIdsUnique ==
    GenerateSucceeded =>
        \A i, j \in Owners :
            i # j => OperationOf(i).OperationID # OperationOf(j).OperationID

\* the path read from place i on: a placeholder {..} of one or more
\* characters is left out, a letter or digit is kept, and any other character
\* puts one underscore after a kept letter or digit
RECURSIVE PathWords(_, _, _)
PathWords(s, i, out) ==
    IF i > Len(s) THEN out
    ELSE LET ends == {j \in (i + 2)..Len(s) :
                          s[j] = "}" /\ \A k \in (i + 1)..(j - 1) : s[k] # "}"}
         IN  IF s[i] = "{" /\ ends # {}
             THEN PathWords(s, (CHOOSE j \in ends : TRUE) + 1, out)
             ELSE IF IsAlnum(s[i])
             THEN PathWords(s, i + 1, Append(out, s[i]))
             ELSE IF out = <<>> \/ out[Len(out)] = "_"
             THEN PathWords(s, i + 1, out)
             ELSE PathWords(s, i + 1, Append(out, "_"))
WithoutLastUnderscore(s) ==
    IF s # <<>> /\ s[Len(s)] = "_" THEN SubSeq(s, 1, Len(s) - 1) ELSE s
ExpectedId(tags, path) ==
    LET first == IF tags = <<>> THEN <<"o", "p", "e", "r", "a", "t", "i", "o", "n">>
                 ELSE [k \in 1..Len(tags[1]) |-> IF tags[1][k] = "A" THEN "a" ELSE tags[1][k]]
    IN  first \o <<"_">> \o WithoutLastUnderscore(PathWords(path, 1, <<>>))

\* C29: a synthesized operation id is the first tag in lower case, or the
\* word operation when there is no tag, an underscore, and the path with its
\* placeholders removed, every run of other characters than letters and
\* digits replaced by one underscore, and the underscores at both ends
\* trimmed; it depends on the tag and the path only.
C29_SynthesizedId ==
    GenerateSucceeded =>
        \A i \in Owners :
            OperationOf(i).OperationID = ExpectedId(definitions[i].Tags, definitions[i].Path)

\* the id ab_a_a was synthesized for the first tag Ab and the path a_/a
C29_Witness ==
    /\ GenerateSucceeded /\ Len(definitions) = 1
    /\ definitions[1].Tags = << <<"A", "b">>, <<"b">> >>
    /\ definitions[1].Path = <<"a", "_", "/", "a">>
    /\ OperationOf(1).OperationID = <<"a", "b", "_", "a", "_", "a">>

-----------------------------------------------------------------------------
(* Invariants of the router *)

\* C30: in every reachable state of an APIRouter, whatever sequence of
\* Register, RegisterGroup, setters, GenerateSwagger (successful or failed)
\* and SwaggerHandler led to it, generated is true only if the cached
\* snapshot is not nil; no operation sets generated back to false; and the
\* definition list only grows, the earlier entries keeping their places.
C30_RouterInvariants ==
    /\ [](generated => swaggerDoc # Nil)
    /\ [][/\ generated => generated'
          /\ Len(definitions') >= Len(definitions)
          /\ SubSeq(definitions', 1, Len(definitions)) = definitions]_vars

\* a GenerateSwagger that failed on a router with a generated document and
\* two definitions
C30_Witness ==
    /\ GenerateReturned /\ ret.err # "nil"
    /\ generated /\ swaggerDoc # Nil
    /\ Len(definitions) >= 2

====
